---------------------------- MODULE Spec2Model ----------------------------
(***************************************************************************)
(* A model of the phish-guard analysis engine                              *)
(* (src/backend/services/email_analyzer.py) and of the Celery task that    *)
(* wraps its file entry point (src/backend/app.py).                        *)
(*                                                                         *)
(* Scores are kept in hundredths (0.3 is 30, 1.0 is 100), so that the      *)
(* weights, the clamp and the two thresholds (0.7 and 0.7 * 0.5 = 0.35)    *)
(* are exact integers.  The sums the code forms in binary floating point   *)
(* differ from these by less than 1e-15 and never cross a threshold.       *)
(*                                                                         *)
(* A python dict is a TLA+ record; a python list is a sequence.            *)
(***************************************************************************)
EXTENDS Integers, Sequences, FiniteSets, TLC

VARIABLES
    entry,                \* the public entry point the caller invoked
    content,              \* argument of analyze_content
    stage,                \* position of the analyze_content invocation
    extracted,            \* extractors that have finished, in order
    header_analysis,      \* findings of _analyze_headers
    content_analysis,     \* findings of _analyze_body
    link_analysis,        \* findings of _analyze_links
    attachment_analysis,  \* findings of _analyze_attachments
    threat_score,         \* local threat_score of analyze_content
    result,               \* value returned by analyze_content
    raised,               \* exception that escaped analyze_content
    file,                 \* the file analyze_file was given
    fsExists,             \* whether the file is still on disk
    fstage,               \* position of the analyze_file invocation
    fresult,              \* value returned by analyze_file
    fraised,              \* exception that escaped analyze_file
    tstage,               \* position of the analyze_file_task execution
    retries,              \* self.request.retries
    taskState,            \* Celery state of the job
    payload,              \* the job's success payload
    countdown,            \* countdown of the last self.retry, in seconds
    keyword_order,        \* iteration order of the set SUSPICIOUS_KEYWORDS in this interpreter
    previous,             \* an earlier invocation of analyze_content and how it ended
    api_rate_limit,       \* current_app.config['API_RATE_LIMIT'], as its words
    redis_key,            \* the Redis key rate_limit:<client_ip>:<endpoint>
    requests,             \* the requests of that client to that endpoint, in order of arrival
    admitted,             \* requests past setex or incr since the counter last ran out
    today,                \* date.today(), as a day number
    analysis_results,     \* rows of the table analysis_results
    analysis_statistics,  \* rows of the table analysis_statistics
    counted,              \* how often the daily counters were incremented, per task_id
    saved                 \* what the last save_analysis_result call returned

vars == <<entry, content, stage, extracted, header_analysis, content_analysis,
          link_analysis, attachment_analysis, threat_score, result, raised,
          file, fsExists, fstage, fresult, fraised,
          tstage, retries, taskState, payload, countdown, keyword_order, previous,
          api_rate_limit, redis_key, requests, admitted,
          today, analysis_results, analysis_statistics, counted, saved>>

contentVars == <<content, stage, extracted, header_analysis, content_analysis,
                 link_analysis, attachment_analysis, threat_score, result, raised>>

fileVars == <<file, fsExists, fstage, fresult, fraised>>

taskVars == <<tstage, retries, taskState, payload, countdown>>

processVars == <<keyword_order, previous>>

limiterVars == <<api_rate_limit, redis_key, requests, admitted>>

historyVars == <<today, analysis_results, analysis_statistics, counted, saved>>

storeVars == <<limiterVars, historyVars>>

-----------------------------------------------------------------------------
(* Bounds of the model *)

\* how many phrases of the vocabulary a modelled body may draw from
MaxKeywords == 2

\* how many anchors a modelled body may hold
MaxLinks == 1

\* how many attachments a modelled message may hold
MaxAttachments == 1

\* how many pieces a single payload of the MIME messages may hold
MaxTokens == 3

\* how many leaf parts a multipart MIME message may hold
MaxParts == 2

\* how many entries a findings list handed to the scoring may hold
MaxFindings == 3

\* how many requests of the client reach the rate-limited endpoint
MaxRequests == 3

\* how many job ids the history service is handed
MaxTaskIds == 2

\* how many calendar days the history service runs through
MaxDays == 2

-----------------------------------------------------------------------------
(* Program constants *)

MAX_FILE_SIZE == 16 * 1024 * 1024

ALLOWED_EXTENSIONS == {".eml"}

SUSPICIOUS_ATTACHMENTS ==
    {"exe", "bat", "cmd", "scr", "js", "vbs", "ps1",
     "wsf", "msi", "jar", "reg", "com", "pif", "zip"}

\* weights['header'], in hundredths
WeightHeader == 30

\* weights['content'], in hundredths
WeightContent == 20

\* weights['link'], in hundredths
WeightLink == 30

\* weights['attachment'], in hundredths
WeightAttachment == 20

\* the 1.0 of min(score, 1.0), in hundredths
ScoreCap == 100

\* phishing_score_threshold = 0.7, in hundredths
phishing_score_threshold == 70

\* max_retries of self.retry
max_retries == 3

\* countdown of self.retry, in seconds
RetryCountdown == 60

-----------------------------------------------------------------------------
(* Values *)

Min(a, b) == IF a <= b THEN a ELSE b

NoResult == [absent |-> TRUE]

Exception(type, message) == [type |-> type, message |-> message]

\* no exception escaped
NoException == Exception("none", "")

\* no earlier invocation is remembered
NoCall == [content |-> [kind |-> "none"], keyword_order |-> <<>>, order |-> <<>>,
           stage |-> "Idle", result |-> NoResult, raised |-> NoException]

\* the falsy file_path
NoFile == [path |-> "", exists |-> FALSE]

\* the phrases modelled bodies are built from: members of SUSPICIOUS_KEYWORDS,
\* the first and the third also being URGENCY_PATTERNS
Phrases == <<"urgent", "click here", "act now">>

PhraseSet == {Phrases[i] : i \in 1..Min(MaxKeywords, Len(Phrases))}

\* the URGENCY_PATTERNS that are plain phrases of the vocabulary
URGENCY_PATTERNS == <<"urgent", "act now">>

\* Authentication-Results header values; "" is the absent header
AuthHeaders ==
    {"", "spf=pass; dkim=pass", "spf=pass; dkim=fail",
     "spf=fail; dkim=pass", "spf=fail; dkim=fail"}

\* str.lower(), for the modelled strings
Lower(s) ==
    CASE s = "URGENT" -> "urgent"
      [] s = "SPF=Pass; DKIM=PASS" -> "spf=pass; dkim=pass"
      [] s = "README" -> "readme"
      [] s = "PDF" -> "pdf"
      [] s = "PayPal" -> "paypal"
      [] s = "Amazon" -> "amazon"
      [] s = "Apple" -> "apple"
      [] s = "GOOGLE" -> "google"
      [] OTHER -> s

\* 'spf=pass' in auth_results, without the lower()
HasSpfPass_cased(auth) == auth \in {"spf=pass; dkim=pass", "spf=pass; dkim=fail"}

\* 'spf=pass' in auth_results.lower()
HasSpfPass(auth) == Lower(auth) \in {"spf=pass; dkim=pass", "spf=pass; dkim=fail"}

\* 'dkim=pass' in auth_results.lower()
HasDkimPass(auth) == Lower(auth) \in {"spf=pass; dkim=pass", "spf=fail; dkim=pass"}

FromHeaders == {"alice@example.com", "\"PayPal Support\" <support@evil-domain.com>"}

Urls ==
    {"http://example.com/", "http://example.org/goto?u=1", "http://bit.ly/xyz",
     "http://secure-verify.tk/login", "http://phishing.ml/redirect"}

Filenames == {"invoice.exe", "report.pdf"}

\* what goes wrong while this message is handled (at most one thing):
\*   parse      the email parser raises (e.g. "Content-Type: b;b*")
\*   reply_to   reading Reply-To raises (e.g. "Reply-To: b<")
\*   from       reading From raises (e.g. "From: \"")
\*   payload    handling a part raises inside _get_email_body (e.g. a text/html
\*              part of a multipart message holding "<![abc]>x", which the
\*              HTML parser rejects)
\*   markup     the HTML parser rejects the body in _analyze_links (e.g. a single
\*              payload holding "<![abc]>x")
\*   filename   get_filename raises (e.g. "Content-Disposition: ;b;-*")
\*   date       reading Date raises (e.g. "Date: 1 Jan 99999999999 00:00:00 +0000")
Faults == {"none", "parse", "reply_to", "from", "payload", "markup", "filename", "date"}

RECURSIVE SeqsUpTo(_, _)
SeqsUpTo(S, n) ==
    IF n = 0 THEN {<<>>}
    ELSE LET shorter == SeqsUpTo(S, n - 1)
         IN  shorter \cup {Append(s, x) : s \in {t \in shorter : Len(t) = n - 1}, x \in S}

EmptyContent == [kind |-> "empty"]

BlankContent == [kind |-> "blank"]

MessagesWith(faults) ==
    [kind : {"message"},
     auth : AuthHeaders,
     from : FromHeaders,
     keywords : SUBSET PhraseSet,
     links : SeqsUpTo(Urls, MaxLinks),
     attachments : SeqsUpTo(Filenames, MaxAttachments),
     fault : faults]

Messages == MessagesWith(Faults)

\* the strings a caller may pass to analyze_content
Contents == {EmptyContent, BlankContent} \cup Messages

\* a further fault of a message held in a file:
\*   as_string  email_message.as_string() raises (e.g. a From header of ":b=; 0:a" and a
\*              non-ascii byte)
FileFaults == Faults \cup {"as_string"}

Extensions == {".eml", ".txt"}

FileSizes == {0, MAX_FILE_SIZE, MAX_FILE_SIZE + 1}

PassesChecks(f) ==
    /\ f.exists
    /\ f.readable
    /\ f.size > 0
    /\ f.size <= MAX_FILE_SIZE
    /\ f.ext \in ALLOWED_EXTENSIONS

\* the files on disk a path may name; what a file holds matters only when it is read
Files ==
    {f \in [path : {"uploads/mail"}, ext : Extensions, exists : BOOLEAN,
            readable : BOOLEAN, size : FileSizes,
            content : {BlankContent} \cup MessagesWith(FileFaults)] :
        /\ (~f.exists => ~f.readable /\ f.size = 0)
        /\ (~PassesChecks(f) => f.content = BlankContent)}

-----------------------------------------------------------------------------
(* Messages as MIME trees *)

\* A payload is a string, modelled as the sequence of its pieces: a piece is a
\* run of text, or an anchor element <a href=...> (markup).  Concatenating
\* strings is concatenating sequences.
TextToken(s) == [tag |-> "text", value |-> s]

Anchor(href) == [tag |-> "a", value |-> href]

\* a leaf part as walk() yields it: get_content_type(), the decoded payload and
\* get_filename() ("" when the part declares none)
Part(ctype, data, filename) ==
    [ctype |-> ctype, payload |-> data, filename |-> filename]

\* The MIME structure of a message.  A message of Messages is written by the
\* phrases, anchors and attachment names it holds: it stands for a text/plain
\* payload with those phrases and anchors, alone or, when there are
\* attachments, as the first part of a multipart message.
Mime(msg) ==
    IF "parts" \in DOMAIN msg
    THEN [multipart |-> msg.multipart, parts |-> msg.parts]
    ELSE LET phrases == SelectSeq(Phrases, LAMBDA k : k \in msg.keywords)
             text == Part("text/plain",
                          [i \in 1..Len(phrases) |-> TextToken(phrases[i])]
                          \o [i \in 1..Len(msg.links) |-> Anchor(msg.links[i])],
                          "")
         IN  [multipart |-> msg.attachments # <<>>,
              parts |-> <<text>> \o [i \in 1..Len(msg.attachments) |->
                            Part("application/octet-stream", <<>>, msg.attachments[i])]]

\* Authentication-Results values in other spellings, and one naming no mechanism
AuthHeadersMime == AuthHeaders \cup {"SPF=Pass; DKIM=PASS", "mx.example.com; none"}

Fragments == {"urgent", "URGENT", "act now", "hello"}

Tokens ==
    {TextToken(s) : s \in Fragments}
    \cup {Anchor(u) : u \in {"", "http://bit.ly/xyz", "http://secure-verify.tk/login"}}

MimeFilenames == Filenames \cup {"README", "Report.PDF"}

\* the leaf parts multipart MIME messages are built from
PartPool ==
    {Part("text/plain", <<TextToken("urgent")>>, ""),
     Part("text/html", <<TextToken("hello")>>, ""),
     Part("text/html", <<TextToken("act now"), Anchor("http://bit.ly/xyz"),
                         Anchor("http://secure-verify.tk/login")>>, "")}
    \cup {Part("application/octet-stream", <<>>, f) : f \in MimeFilenames}

MimeMessage(auth, from, multipart, parts, fault) ==
    [kind |-> "message", auth |-> auth, from |-> from,
     multipart |-> multipart, parts |-> parts, fault |-> fault]

\* messages that differ in their headers
HeaderCases ==
    {MimeMessage(a, f, FALSE, <<Part("text/plain", <<>>, "")>>, "none") :
        a \in AuthHeadersMime, f \in FromHeaders}

\* messages of a single text/plain or text/html payload
TextCases ==
    {MimeMessage("", "alice@example.com", FALSE, <<Part(t, p, "")>>, "none") :
        t \in {"text/plain", "text/html"}, p \in SeqsUpTo(Tokens, MaxTokens)}

\* multipart messages, listed by their leaf parts in walk() order
PartCases ==
    {MimeMessage("", "alice@example.com", TRUE, ps, f) :
        ps \in SeqsUpTo(PartPool, MaxParts), f \in {"none", "payload"}}

MimeContents == HeaderCases \cup TextCases \cup PartCases

\* the orders in which a set of the three phrases may iterate
KeywordOrders ==
    {o \in [1..Len(Phrases) -> {Phrases[i] : i \in 1..Len(Phrases)}] :
        \A i, j \in 1..Len(Phrases) : o[i] = o[j] => i = j}


-----------------------------------------------------------------------------
(* Heuristics over the modelled headers, urls and filenames *)

BRANDS == <<"paypal", "amazon", "microsoft", "google", "apple", "bank">>

\* From headers with and without a display name, with a brand in the display
\* name, in the address, in both or in neither
FromHeadersBranded ==
    {"service@mybank.com",
     "\"Amazon\" <orders@amazon.com>",
     "\"Support @PayPal\" <help@evil-domain.com>",
     "\"Apple ID\" <id@paypal.com>",
     "GOOGLE <no-reply@google.com>",
     "bob <bob@bankofamerica.com>"}

\* A From header as the pieces of its text, cut so that every brand name in it
\* is a piece of its own: the display-name text (empty when the header is a
\* bare address) and the address portion.  The header is the two joined.
FromPieces(from_header) ==
    CASE from_header = "alice@example.com" ->
            [display |-> <<>>, address |-> <<"alice", "@", "example.com">>]
      [] from_header = "\"PayPal Support\" <support@evil-domain.com>" ->
            [display |-> <<"\"", "PayPal", " Support\" ">>,
             address |-> <<"<support", "@", "evil-domain.com>">>]
      [] from_header = "service@mybank.com" ->
            [display |-> <<>>, address |-> <<"service", "@", "my", "bank", ".com">>]
      [] from_header = "\"Amazon\" <orders@amazon.com>" ->
            [display |-> <<"\"", "Amazon", "\" ">>,
             address |-> <<"<orders", "@", "amazon", ".com>">>]
      [] from_header = "\"Support @PayPal\" <help@evil-domain.com>" ->
            [display |-> <<"\"Support ", "@", "PayPal", "\" ">>,
             address |-> <<"<help", "@", "evil-domain.com>">>]
      [] from_header = "\"Apple ID\" <id@paypal.com>" ->
            [display |-> <<"\"", "Apple", " ID\" ">>,
             address |-> <<"<id", "@", "paypal", ".com>">>]
      [] from_header = "GOOGLE <no-reply@google.com>" ->
            [display |-> <<"GOOGLE", " ">>,
             address |-> <<"<no-reply", "@", "google", ".com>">>]
      [] from_header = "bob <bob@bankofamerica.com>" ->
            [display |-> <<"bob ">>,
             address |-> <<"<bob", "@", "bank", "ofamerica.com>">>]

\* pattern in text.lower(), for a text given by its pieces
HasPiece(text, pattern) == \E i \in 1..Len(text) : Lower(text[i]) = pattern

\* f'@{pattern}' in text.lower(), for a text given by its pieces
HasAtPiece(text, pattern) ==
    \E i \in 1..Len(text) - 1 : text[i] = "@" /\ Lower(text[i + 1]) = pattern

\* pattern in from_lower: the search runs over the whole header
BrandInFrom(from_header, pattern) ==
    HasPiece(FromPieces(from_header).display \o FromPieces(from_header).address, pattern)

\* f'@{pattern}' in from_lower: the search runs over the whole header
AtBrandInFrom(from_header, pattern) ==
    HasAtPiece(FromPieces(from_header).display \o FromPieces(from_header).address, pattern)

_check_display_name_spoofing(from_header) ==
    \E i \in 1..Len(BRANDS) :
        BrandInFrom(from_header, BRANDS[i]) /\ ~AtBrandInFrom(from_header, BRANDS[i])

\* header.split('@')[-1].strip('>'), for the modelled headers
AddressDomain(header) ==
    CASE header = "alice@example.com" -> "example.com"
      [] header = "\"PayPal Support\" <support@evil-domain.com>" -> "evil-domain.com"
      [] OTHER -> header

\* the modelled messages carry no Reply-To header: reply_to is ''
_check_mismatched_domains(from_header, reply_to) ==
    IF reply_to = "" THEN FALSE
    ELSE AddressDomain(from_header) # AddressDomain(reply_to)

\* any(indicator in url.lower() for indicator in redirect_indicators)
_check_redirect(url) == url \in {"http://example.org/goto?u=1", "http://phishing.ml/redirect"}

\* urlparse(link).netloc
Netloc(url) ==
    CASE url = "http://example.com/" -> "example.com"
      [] url = "http://example.org/goto?u=1" -> "example.org"
      [] url = "http://bit.ly/xyz" -> "bit.ly"
      [] url = "http://secure-verify.tk/login" -> "secure-verify.tk"
      [] url = "http://phishing.ml/redirect" -> "phishing.ml"
      [] OTHER -> ""

\* suspicious TLD (.tk .ml .ga .cf) or suspicious pattern (secure- verify- ...)
_check_domain_reputation(domain) == domain \in {"secure-verify.tk", "phishing.ml"}

\* shortener or keyword (bit.ly, ..., phishing, malware, suspicious) in url.lower()
_check_deceptive_url(url) == url \in {"http://bit.ly/xyz", "http://phishing.ml/redirect"}

\* '.' in filename
HasDot(filename) == filename \in {"invoice.exe", "report.pdf", "Report.PDF"}

\* filename.split('.')[-1]: the whole name when it holds no '.'
LastSegment(filename) ==
    CASE filename = "invoice.exe" -> "exe"
      [] filename = "report.pdf" -> "pdf"
      [] filename = "Report.PDF" -> "PDF"
      [] OTHER -> filename

\* filename.split('.')[-1].lower()
Extension(filename) == Lower(LastSegment(filename))

_is_suspicious_attachment(filename) ==
    IF filename = "" \/ ~HasDot(filename) THEN FALSE
    ELSE Extension(filename) \in SUSPICIOUS_ATTACHMENTS

-----------------------------------------------------------------------------
(* The four extractors *)

\* authentication_results: a dict with the keys that were assigned
AuthResults(auth) ==
    [k \in (IF auth # "" \/ HasSpfPass(auth) THEN {"spf"} ELSE {})
           \cup (IF auth # "" \/ HasDkimPass(auth) THEN {"dkim"} ELSE {}) |->
        IF k = "spf"
        THEN (IF ~HasSpfPass(auth) /\ auth # "" THEN "failed" ELSE "passed")
        ELSE (IF ~HasDkimPass(auth) /\ auth # "" THEN "failed" ELSE "passed")]

RiskIndicators(auth) ==
    (IF ~HasSpfPass(auth) /\ auth # "" THEN <<"SPF verification failed">> ELSE <<>>)
    \o (IF ~HasDkimPass(auth) /\ auth # "" THEN <<"DKIM verification failed">> ELSE <<>>)

\* the suspicious_patterns collected before the header handling stops
SuspiciousPatterns(msg) ==
    IF msg.fault = "from" THEN <<>>
    ELSE (IF _check_display_name_spoofing(msg.from)
          THEN <<"Possible display name spoofing">> ELSE <<>>)
         \o (IF msg.fault # "reply_to" /\ _check_mismatched_domains(msg.from, "")
             THEN <<"Mismatched sender domains">> ELSE <<>>)

_analyze_headers(msg) ==
    LET results == [suspicious_patterns |-> SuspiciousPatterns(msg),
                    authentication_results |-> AuthResults(msg.auth),
                    risk_indicators |-> RiskIndicators(msg.auth)]
    IN  IF msg.fault \in {"from", "reply_to"}
        THEN [suspicious_patterns |-> results.suspicious_patterns,
              authentication_results |-> results.authentication_results,
              risk_indicators |-> results.risk_indicators,
              error |-> msg.fault]
        ELSE results

\* soup.get_text(): the text of a payload without its markup
get_text(markup) == SelectSeq(markup, LAMBDA t : t.tag = "text")

\* what the loop over walk() adds to body for the parts given
RECURSIVE WalkBody(_)
WalkBody(parts) ==
    IF parts = <<>> THEN <<>>
    ELSE LET part == Head(parts)
             text == IF part.ctype = "text/plain" THEN part.payload
                     ELSE IF part.ctype = "text/html" THEN get_text(part.payload)
                     ELSE <<>>
         IN  text \o WalkBody(Tail(parts))

\* the body string: the except branch leaves "", a multipart message gives the
\* text collected from its parts, any other message its payload as it is
_get_email_body(msg) ==
    LET m == Mime(msg)
    IN  IF msg.fault = "payload" THEN <<>>
        ELSE IF m.multipart THEN WalkBody(m.parts)
        ELSE m.parts[1].payload

\* phrase in body.lower(), and re.search(phrase, body.lower()): no modelled
\* href holds a phrase, and no phrase spans two pieces
InBody(phrase, body) ==
    \E i \in 1..Len(body) : body[i].tag = "text" /\ Lower(body[i].value) = phrase

\* every occurrence of a phrase recorded, not every phrase
_analyze_body_counting(msg) ==
    LET body == _get_email_body(msg)
        texts == SelectSeq(body, LAMBDA t : t.tag = "text")
        found == [i \in 1..Len(texts) |-> Lower(texts[i].value)]
    IN  [suspicious_keywords |->
             SelectSeq(found, LAMBDA k : \E i \in 1..Len(Phrases) : Phrases[i] = k),
         urgency_indicators |->
             SelectSeq(found, LAMBDA p : \E i \in 1..Len(URGENCY_PATTERNS) :
                                            URGENCY_PATTERNS[i] = p),
         sentiment_analysis |-> <<>>]

\* SUSPICIOUS_KEYWORDS is a python set: suspicious_keywords comes in the set's
\* iteration order, which is fixed within an interpreter
_analyze_body(msg) ==
    LET body == _get_email_body(msg)
    IN  [suspicious_keywords |-> SelectSeq(keyword_order, LAMBDA k : InBody(k, body)),
         urgency_indicators |-> SelectSeq(URGENCY_PATTERNS, LAMBDA p : InBody(p, body)),
         sentiment_analysis |-> <<>>]

\* the body string taken from what the body extractor left behind: empty until
\* that extractor has run
_analyze_links_cached(msg) ==
    LET body  == IF \E i \in 1..Len(extracted) : extracted[i] = "body"
                 THEN _get_email_body(msg) ELSE <<>>
        soup  == SelectSeq(body, LAMBDA t : t.tag = "a")
        hrefs == [i \in 1..Len(soup) |-> soup[i].value]
        links == SelectSeq(hrefs, LAMBDA l : l # "")
        bad   == SelectSeq(links, LAMBDA l : Netloc(l) # ""
                                             /\ _check_domain_reputation(Netloc(l)))
    IN  [suspicious_links |-> SelectSeq(links, _check_deceptive_url),
         redirects |-> SelectSeq(links, _check_redirect),
         malicious_domains |-> [i \in 1..Len(bad) |-> Netloc(bad[i])]]

_analyze_links(msg) ==
    LET body  == _get_email_body(msg)
        soup  == SelectSeq(body, LAMBDA t : t.tag = "a")
        hrefs == [i \in 1..Len(soup) |-> soup[i].value]
        links == SelectSeq(hrefs, LAMBDA l : l # "")
        bad   == SelectSeq(links, LAMBDA l : Netloc(l) # ""
                                             /\ _check_domain_reputation(Netloc(l)))
    IN  [suspicious_links |-> SelectSeq(links, _check_deceptive_url),
         redirects |-> SelectSeq(links, _check_redirect),
         malicious_domains |-> [i \in 1..Len(bad) |-> Netloc(bad[i])]]

_analyze_attachments(msg) ==
    LET parts == Mime(msg).parts
        names == [i \in 1..Len(parts) |-> parts[i].filename]
        named == SelectSeq(names, LAMBDA f : f # "")
    IN  [suspicious_attachments |-> SelectSeq(named, _is_suspicious_attachment),
         file_types |-> [i \in 1..Len(named) |-> Extension(named[i])]]

-----------------------------------------------------------------------------
(* Scoring, classification, recommendations *)

\* the malicious domains counted once instead of twice
_calculate_threat_score_single(h, c, l, a) ==
    LET s == Len(h.risk_indicators) * WeightHeader
             + Len(c.suspicious_keywords) * WeightContent
             + (Len(l.suspicious_links) + Len(l.malicious_domains)) * WeightLink
             + Len(a.suspicious_attachments) * WeightAttachment
    IN  IF s <= ScoreCap THEN s ELSE ScoreCap

\* the sum without the final min(score, 1.0)
_calculate_threat_score_unclamped(h, c, l, a) ==
    Len(h.risk_indicators) * WeightHeader
    + Len(c.suspicious_keywords) * WeightContent
    + (Len(l.suspicious_links) + Len(l.malicious_domains) * 2) * WeightLink
    + Len(a.suspicious_attachments) * WeightAttachment

\* a sum above 1.0 dropped to 0.0 instead of clamped
_calculate_threat_score_dropped(h, c, l, a) ==
    IF _calculate_threat_score_unclamped(h, c, l, a) > ScoreCap THEN 0
    ELSE _calculate_threat_score_unclamped(h, c, l, a)

_calculate_threat_score(h, c, l, a) ==
    LET s0 == 0
        s1 == IF Len(h.risk_indicators) > 0
              THEN s0 + Len(h.risk_indicators) * WeightHeader ELSE s0
        s2 == IF Len(c.suspicious_keywords) > 0
              THEN s1 + Len(c.suspicious_keywords) * WeightContent ELSE s1
        link_score == (Len(l.suspicious_links) + Len(l.malicious_domains) * 2) * WeightLink
        s3 == s2 + link_score
        s4 == IF Len(a.suspicious_attachments) > 0
              THEN s3 + Len(a.suspicious_attachments) * WeightAttachment ELSE s3
    IN  Min(s4, ScoreCap)

\* 'unknown' instead of 'low' as the fall-through tier
_get_risk_level_fallthrough(score) ==
    IF score >= phishing_score_threshold THEN "high"
    ELSE IF 2 * score >= phishing_score_threshold THEN "medium"
    ELSE "unknown"

\* > instead of >= at both thresholds
_get_risk_level_strict(score) ==
    IF score > phishing_score_threshold THEN "high"
    ELSE IF 2 * score > phishing_score_threshold THEN "medium"
    ELSE "low"

\* threat_score >= threshold * 0.5 is 2 * threat_score >= threshold
_get_risk_level(score) ==
    IF score >= phishing_score_threshold THEN "high"
    ELSE IF 2 * score >= phishing_score_threshold THEN "medium"
    ELSE "low"

\* the list as collected, without the "appears safe" fallback
_generate_recommendations_nofallback(h, c, l, a) ==
    (IF Len(h.risk_indicators) > 0
     THEN <<"The email failed security verification checks. Be extremely cautious.">>
     ELSE <<>>)
    \o (IF Len(c.suspicious_keywords) > 0
        THEN <<"This email contains common phishing phrases. Verify any requests through official channels.">>
        ELSE <<>>)
    \o (IF Len(l.suspicious_links) > 0 \/ Len(l.malicious_domains) > 0
        THEN <<"Do not click on any links. If necessary, manually type the URL in your browser.">>
        ELSE <<>>)
    \o (IF Len(a.suspicious_attachments) > 0
        THEN <<"This email contains potentially dangerous attachments. Do not open them.">>
        ELSE <<>>)

\* the link advisory triggered by suspicious_links alone
_generate_recommendations_linksonly(h, c, l, a) ==
    LET recommendations ==
            (IF Len(h.risk_indicators) > 0
             THEN <<"The email failed security verification checks. Be extremely cautious.">>
             ELSE <<>>)
            \o (IF Len(c.suspicious_keywords) > 0
                THEN <<"This email contains common phishing phrases. Verify any requests through official channels.">>
                ELSE <<>>)
            \o (IF Len(l.suspicious_links) > 0
                THEN <<"Do not click on any links. If necessary, manually type the URL in your browser.">>
                ELSE <<>>)
            \o (IF Len(a.suspicious_attachments) > 0
                THEN <<"This email contains potentially dangerous attachments. Do not open them.">>
                ELSE <<>>)
    IN  IF recommendations = <<>>
        THEN <<"This email appears to be safe, but always remain vigilant.">>
        ELSE recommendations

_generate_recommendations(h, c, l, a) ==
    LET r1 ==IF Len(h.risk_indicators) > 0
              THEN <<"The email failed security verification checks. Be extremely cautious.">>
              ELSE <<>>
        r2 == IF Len(c.suspicious_keywords) > 0
              THEN <<"This email contains common phishing phrases. Verify any requests through official channels.">>
              ELSE <<>>
        r3 == IF Len(l.suspicious_links) > 0 \/ Len(l.malicious_domains) > 0
              THEN <<"Do not click on any links. If necessary, manually type the URL in your browser.">>
              ELSE <<>>
        r4 == IF Len(a.suspicious_attachments) > 0
              THEN <<"This email contains potentially dangerous attachments. Do not open them.">>
              ELSE <<>>
        recommendations == r1 \o r2 \o r3 \o r4
    IN  IF recommendations = <<>>
        THEN <<"This email appears to be safe, but always remain vigilant.">>
        ELSE recommendations


-----------------------------------------------------------------------------
(* The dicts analyze_content returns *)

\* the empty check answering with the 'low' tier
EmptyContentResult_low ==
    [error |-> <<"Empty email content provided">>,
     threat_score |-> 0,
     risk_level |-> "low",
     message |-> "No content to analyze"]

EmptyContentResult ==
    [error |-> <<"Empty email content provided">>,
     threat_score |-> 0,
     risk_level |-> "unknown",
     message |-> "No content to analyze"]

AnalysisFailedResult(e) ==
    [error |-> <<"Analysis failed", e>>,
     threat_score |-> 0,
     risk_level |-> "unknown",
     message |-> "Partial analysis failure"]

InternalErrorResult(e) ==
    [error |-> <<"Internal analysis error", e>>,
     threat_score |-> 0,
     risk_level |-> "unknown",
     message |-> "Analysis failed due to unexpected error"]

SuccessResult(msg, score, h, c, l, a) ==
    [threat_score |-> score,
     risk_level |-> _get_risk_level(score),
     header_analysis |-> h,
     content_analysis |-> c,
     link_analysis |-> l,
     attachment_analysis |-> a,
     recommendations |-> _generate_recommendations(h, c, l, a),
     timestamp |-> "Unknown",
     subject |-> "No Subject",
     sender |-> msg.from]

Unset == [unset |-> TRUE]

\* the frame of an analyze_content invocation that has not started
ContentFrameIdle ==
    /\ stage = "Idle"
    /\ extracted = <<>>
    /\ header_analysis = Unset
    /\ content_analysis = Unset
    /\ link_analysis = Unset
    /\ attachment_analysis = Unset
    /\ threat_score = Unset
    /\ result = NoResult
    /\ raised = NoException

-----------------------------------------------------------------------------
(* analyze_content, step by step *)

\* a caller invokes EmailAnalyzer.analyze_content(c)
AnalyzeContentCall ==
    /\ entry = "none"
    /\ \E c \in Contents :
        /\ entry' = "analyze_content"
        /\ content' = c
        /\ stage' = "Received"
    /\ UNCHANGED <<extracted, header_analysis, content_analysis, link_analysis,
                   attachment_analysis, threat_score, result, raised>>
    /\ UNCHANGED <<fileVars, taskVars, processVars, storeVars>>

\* the empty check and Parser.parsestr
ParseContent ==
    /\ stage = "Received"
    /\ IF content.kind \in {"empty", "blank"}
       THEN /\ stage' = "Failed"
            /\ result' = EmptyContentResult
            /\ raised' = raised
       ELSE IF content.fault = "parse"
       THEN /\ stage' = "Raised"
            /\ raised' = Exception("EmailParsingError", "Invalid email format")
            /\ result' = result
       ELSE /\ stage' = "Parsed"
            /\ UNCHANGED <<result, raised>>
    /\ UNCHANGED <<entry, content, extracted, header_analysis, content_analysis,
                   link_analysis, attachment_analysis, threat_score>>
    /\ UNCHANGED <<fileVars, taskVars, processVars, storeVars>>

AnalyzeHeaders ==
    /\ stage = "Parsed"
    /\ extracted = <<>>
    /\ header_analysis' = _analyze_headers(content)
    /\ extracted' = Append(extracted, "header")
    /\ UNCHANGED <<entry, content, stage, content_analysis, link_analysis,
                   attachment_analysis, threat_score, result, raised>>
    /\ UNCHANGED <<fileVars, taskVars, processVars, storeVars>>

AnalyzeBody ==
    /\ stage = "Parsed"
    /\ extracted = <<"header">>
    /\ content_analysis' = _analyze_body(content)
    /\ extracted' = Append(extracted, "body")
    /\ UNCHANGED <<entry, content, stage, header_analysis, link_analysis,
                   attachment_analysis, threat_score, result, raised>>
    /\ UNCHANGED <<fileVars, taskVars, processVars, storeVars>>

AnalyzeLinks ==
    /\ stage = "Parsed"
    /\ extracted = <<"header", "body">>
    /\ IF content.fault = "markup"
       THEN /\ stage' = "Failed"
            /\ result' = AnalysisFailedResult(content.fault)
            /\ UNCHANGED <<link_analysis, extracted>>
       ELSE /\ link_analysis' = _analyze_links(content)
            /\ extracted' = Append(extracted, "link")
            /\ UNCHANGED <<stage, result>>
    /\ UNCHANGED <<entry, content, header_analysis, content_analysis,
                   attachment_analysis, threat_score, raised>>
    /\ UNCHANGED <<fileVars, taskVars, processVars, storeVars>>

\* the except branch builds the failure dict but does not return it
AnalyzeAttachments_noreturn ==
    /\ stage = "Parsed"
    /\ extracted = <<"header", "body", "link">>
    /\ IF content.fault = "filename"
       THEN /\ result' = AnalysisFailedResult(content.fault)
            /\ attachment_analysis' = [suspicious_attachments |-> <<>>, file_types |-> <<>>]
       ELSE /\ attachment_analysis' = _analyze_attachments(content)
            /\ result' = result
    /\ extracted' = Append(extracted, "attachment")
    /\ stage' = "Extracted"
    /\ UNCHANGED <<entry, content, header_analysis, content_analysis,
                   link_analysis, threat_score, raised>>
    /\ UNCHANGED <<fileVars, taskVars, processVars, storeVars>>

AnalyzeAttachments ==
    /\ stage = "Parsed"
    /\ extracted = <<"header", "body", "link">>
    /\ IF content.fault = "filename"
       THEN /\ stage' = "Failed"
            /\ result' = AnalysisFailedResult(content.fault)
            /\ UNCHANGED <<attachment_analysis, extracted>>
       ELSE /\ attachment_analysis' = _analyze_attachments(content)
            /\ extracted' = Append(extracted, "attachment")
            /\ stage' = "Extracted"
            /\ result' = result
    /\ UNCHANGED <<entry, content, header_analysis, content_analysis,
                   link_analysis, threat_score, raised>>
    /\ UNCHANGED <<fileVars, taskVars, processVars, storeVars>>

CalculateThreatScore ==
    /\ stage = "Extracted"
    /\ threat_score' = _calculate_threat_score(header_analysis, content_analysis,
                                               link_analysis, attachment_analysis)
    /\ stage' = "Scored"
    /\ UNCHANGED <<entry, content, extracted, header_analysis, content_analysis,
                   link_analysis, attachment_analysis, result, raised>>
    /\ UNCHANGED <<fileVars, taskVars, processVars, storeVars>>

\* the result dict: risk level, recommendations, Date, Subject and From
BuildResult ==
    /\ stage = "Scored"
    /\ IF content.fault \in {"date", "from"}
       THEN /\ stage' = "Failed"
            /\ result' = InternalErrorResult(content.fault)
       ELSE /\ stage' = "Returned"
            /\ result' = SuccessResult(content, threat_score, header_analysis,
                                       content_analysis, link_analysis,
                                       attachment_analysis)
    /\ UNCHANGED <<entry, content, extracted, header_analysis, content_analysis,
                   link_analysis, attachment_analysis, threat_score, raised>>
    /\ UNCHANGED <<fileVars, taskVars, processVars, storeVars>>

AnalyzeContentDone == stage \in {"Returned", "Failed", "Raised"}


-----------------------------------------------------------------------------
(* analyze_file *)

\* the validation with the extension looked at before the size
ValidateFile_extension_first(f, onDisk) ==
    IF ~onDisk THEN Exception("FileNotFoundError", "File not found")
    ELSE IF ~f.readable THEN Exception("PermissionError", "Cannot read file")
    ELSE IF f.ext \notin ALLOWED_EXTENSIONS
    THEN Exception("FileValidationError", "Invalid file extension")
    ELSE IF f.size > MAX_FILE_SIZE THEN Exception("FileValidationError", "File too large")
    ELSE IF f.size = 0 THEN Exception("FileValidationError", "File is empty")
    ELSE NoException

\* the exception the validation of the path raises, NoException when it passes
ValidateFile(f, onDisk) ==
    IF ~onDisk THEN Exception("FileNotFoundError", "File not found")
    ELSE IF ~f.readable THEN Exception("PermissionError", "Cannot read file")
    ELSE IF f.size > MAX_FILE_SIZE THEN Exception("FileValidationError", "File too large")
    ELSE IF f.size = 0 THEN Exception("FileValidationError", "File is empty")
    ELSE IF f.ext \notin ALLOWED_EXTENSIONS
    THEN Exception("FileValidationError", "Invalid file extension")
    ELSE NoException

FileAnalysisFailedResult(e) ==
    [error |-> <<"File analysis failed", e>>,
     threat_score |-> 0,
     risk_level |-> "unknown",
     message |-> "File analysis failed due to unexpected error"]

\* a caller invokes EmailAnalyzer.analyze_file(path)
AnalyzeFileCall ==
    /\ entry = "none"
    /\ \E f \in Files :
        /\ entry' = "analyze_file"
        /\ file' = f
        /\ fsExists' = f.exists
        /\ fstage' = "Validating"
    /\ UNCHANGED <<fresult, fraised>>
    /\ UNCHANGED <<contentVars, taskVars, processVars, storeVars>>

\* existence, permissions, size and extension
CheckFile ==
    /\ fstage = "Validating"
    /\ LET e == ValidateFile(file, fsExists)
       IN  IF e # NoException
           THEN /\ fraised' = e
                /\ fstage' = "Raised"
           ELSE /\ fstage' = "Reading"
                /\ fraised' = fraised
    /\ UNCHANGED <<entry, file, fsExists, fresult>>
    /\ UNCHANGED <<contentVars, taskVars, processVars, storeVars>>

\* BytesParser.parse, as_string and the call of analyze_content.  A message that
\* as_string can serialise is handed on with the headers, body and parts it was
\* parsed with; one it cannot serialise ends in the except of lines 198-205.
ReadFile ==
    /\ fstage = "Reading"
    /\ IF file.content.kind = "message" /\ file.content.fault = "parse"
       THEN /\ fraised' = Exception("EmailParsingError", "Failed to parse email file")
            /\ fstage' = "Raised"
            /\ UNCHANGED <<fresult, content, stage>>
       ELSE IF file.content.kind = "message" /\ file.content.fault = "as_string"
       THEN /\ fresult' = FileAnalysisFailedResult(file.content.fault)
            /\ fstage' = "Returned"
            /\ UNCHANGED <<fraised, content, stage>>
       ELSE /\ content' = file.content
            /\ stage' = "Received"
            /\ fstage' = "Analyzing"
            /\ UNCHANGED <<fresult, fraised>>
    /\ UNCHANGED <<entry, file, fsExists>>
    /\ UNCHANGED <<extracted, header_analysis, content_analysis, link_analysis,
                   attachment_analysis, threat_score, result, raised>>
    /\ UNCHANGED <<taskVars, processVars, storeVars>>

\* analyze_content has ended: its result is returned, its EmailParsingError re-raised
FileReturn ==
    /\ fstage = "Analyzing"
    /\ AnalyzeContentDone
    /\ IF stage = "Raised"
       THEN /\ fraised' = raised
            /\ fstage' = "Raised"
            /\ fresult' = fresult
       ELSE /\ fresult' = result
            /\ fstage' = "Returned"
            /\ fraised' = fraised
    /\ UNCHANGED <<entry, file, fsExists>>
    /\ UNCHANGED <<contentVars, taskVars, processVars, storeVars>>

AnalyzeFileDone == fstage \in {"Returned", "Raised"}

-----------------------------------------------------------------------------
(* analyze_file_task *)

FileTaskErrorResult(e) ==
    [error |-> <<e.message>>,
     threat_score |-> 0,
     risk_level |-> "unknown",
     message |-> "File analysis failed"]

\* analyze_file_task.delay(file_path)
AnalyzeFileTaskCall ==
    /\ entry = "none"
    /\ \E f \in Files \cup {NoFile} :
        /\ entry' = "analyze_file_task"
        /\ file' = f
        /\ fsExists' = f.exists
    /\ tstage' = "Queued"
    /\ taskState' = "PENDING"
    /\ UNCHANGED <<fstage, fresult, fraised, retries, payload, countdown>>
    /\ UNCHANGED <<contentVars, processVars, storeVars>>

\* self.retry allowing one retry more than max_retries
Retry_one_more ==
    IF retries < max_retries + 1
    THEN /\ retries' = retries + 1
         /\ countdown' = RetryCountdown
         /\ taskState' = "RETRY"
         /\ tstage' = "Queued"
    ELSE /\ retries' = retries
         /\ countdown' = countdown
         /\ taskState' = "FAILURE"
         /\ tstage' = "Done"

\* self.retry(countdown=60, max_retries=3, exc=e): the task is queued again, or
\* the exception is raised once the retries are used up
Retry ==
    IF retries < max_retries
    THEN /\ retries' = retries + 1
         /\ countdown' = RetryCountdown
         /\ taskState' = "RETRY"
         /\ tstage' = "Queued"
    ELSE /\ retries' = retries
         /\ countdown' = countdown
         /\ taskState' = "FAILURE"
         /\ tstage' = "Done"

\* a worker starts an execution of the task: the path check and the call of analyze_file
TaskRun ==
    /\ entry = "analyze_file_task"
    /\ tstage = "Queued"
    /\ IF file = NoFile
       THEN /\ Retry
            /\ UNCHANGED <<fstage, fresult, fraised>>
       ELSE /\ tstage' = "Running"
            /\ taskState' = "STARTED"
            /\ fstage' = "Validating"
            /\ fresult' = NoResult
            /\ fraised' = NoException
            /\ retries' = retries
            /\ countdown' = countdown
    /\ stage' = "Idle"
    /\ extracted' = <<>>
    /\ header_analysis' = Unset
    /\ content_analysis' = Unset
    /\ link_analysis' = Unset
    /\ attachment_analysis' = Unset
    /\ threat_score' = Unset
    /\ result' = NoResult
    /\ raised' = NoException
    /\ UNCHANGED <<entry, content, file, fsExists, payload, processVars, storeVars>>

\* the task without the clean-up before self.retry
TaskFinish_no_cleanup_on_retry ==
    /\ entry = "analyze_file_task"
    /\ tstage = "Running"
    /\ AnalyzeFileDone
    /\ IF fstage = "Returned"
       THEN /\ payload' = fresult
            /\ fsExists' = FALSE
            /\ taskState' = "SUCCESS"
            /\ tstage' = "Done"
            /\ UNCHANGED <<retries, countdown>>
       ELSE IF fraised.type \in {"FileValidationError", "EmailParsingError"}
       THEN /\ payload' = FileTaskErrorResult(fraised)
            /\ fsExists' = FALSE
            /\ taskState' = "SUCCESS"
            /\ tstage' = "Done"
            /\ UNCHANGED <<retries, countdown>>
       ELSE /\ Retry
            /\ UNCHANGED <<payload, fsExists>>
    /\ UNCHANGED <<entry, file, fstage, fresult, fraised>>
    /\ UNCHANGED <<contentVars, processVars, storeVars>>

\* analyze_file has ended: the temporary file is removed and the outcome handled
TaskFinish ==
    /\ entry = "analyze_file_task"
    /\ tstage = "Running"
    /\ AnalyzeFileDone
    /\ fsExists' = FALSE
    /\ IF fstage = "Returned"
       THEN /\ payload' = fresult
            /\ taskState' = "SUCCESS"
            /\ tstage' = "Done"
            /\ UNCHANGED <<retries, countdown>>
       ELSE IF fraised.type \in {"FileValidationError", "EmailParsingError"}
       THEN /\ payload' = FileTaskErrorResult(fraised)
            /\ taskState' = "SUCCESS"
            /\ tstage' = "Done"
            /\ UNCHANGED <<retries, countdown>>
       ELSE /\ Retry
            /\ payload' = payload
    /\ UNCHANGED <<entry, file, fstage, fresult, fraised>>
    /\ UNCHANGED <<contentVars, processVars, storeVars>>

TaskDone == tstage = "Done"

-----------------------------------------------------------------------------
(* The stores behind the rate limiter and the history service, before use *)

\* the key does not exist
NoKey == [exists |-> FALSE, value |-> 0, ttl |-> 0]

LimiterIdle ==
    /\ api_rate_limit = <<"100", "per", "hour">>
    /\ redis_key = NoKey
    /\ requests = <<>>
    /\ admitted = 0

HistoryIdle ==
    /\ today = 1
    /\ analysis_results = {}
    /\ analysis_statistics = {}
    /\ counted = <<>>
    /\ saved = "none"

-----------------------------------------------------------------------------
(* The specification *)

Init ==
    /\ entry = "none"
    /\ content = EmptyContent
    /\ ContentFrameIdle
    /\ file = NoFile
    /\ fsExists = FALSE
    /\ fstage = "Idle"
    /\ fresult = NoResult
    /\ fraised = NoException
    /\ tstage = "Idle"
    /\ retries = 0
    /\ taskState = "NONE"
    /\ payload = NoResult
    /\ countdown = 0
    /\ keyword_order = Phrases
    /\ previous = NoCall
    /\ LimiterIdle
    /\ HistoryIdle

Next ==
    \/ AnalyzeContentCall
    \/ ParseContent
    \/ AnalyzeHeaders
    \/ AnalyzeBody
    \/ AnalyzeLinks
    \/ AnalyzeAttachments
    \/ CalculateThreatScore
    \/ BuildResult
    \/ AnalyzeFileCall
    \/ CheckFile
    \/ ReadFile
    \/ FileReturn
    \/ AnalyzeFileTaskCall
    \/ TaskRun
    \/ TaskFinish

Spec == Init /\ [][Next]_vars

-----------------------------------------------------------------------------
(* analyze_content over messages given as MIME trees, in an interpreter whose *)
(* keyword set iterates in any of its orders                                  *)

\* a caller invokes EmailAnalyzer.analyze_content(c) with a MIME message
AnalyzeMimeCall ==
    /\ entry = "none"
    /\ \E c \in MimeContents :
        /\ entry' = "analyze_content"
        /\ content' = c
        /\ stage' = "Received"
    /\ UNCHANGED <<extracted, header_analysis, content_analysis, link_analysis,
                   attachment_analysis, threat_score, result, raised>>
    /\ UNCHANGED <<fileVars, taskVars, processVars, storeVars>>

InitMime ==
    /\ entry = "none"
    /\ content = EmptyContent
    /\ ContentFrameIdle
    /\ file = NoFile
    /\ fsExists = FALSE
    /\ fstage = "Idle"
    /\ fresult = NoResult
    /\ fraised = NoException
    /\ tstage = "Idle"
    /\ retries = 0
    /\ taskState = "NONE"
    /\ payload = NoResult
    /\ countdown = 0
    /\ keyword_order \in KeywordOrders
    /\ previous = NoCall
    /\ LimiterIdle
    /\ HistoryIdle

NextMime ==
    \/ AnalyzeMimeCall
    \/ ParseContent
    \/ AnalyzeHeaders
    \/ AnalyzeBody
    \/ AnalyzeLinks
    \/ AnalyzeAttachments
    \/ CalculateThreatScore
    \/ BuildResult

SpecMime == InitMime /\ [][NextMime]_vars

-----------------------------------------------------------------------------
(* Invocations one after the other, in one interpreter or in several *)

\* the contents of repeated invocations: empty, unparsable, and bodies of phrases
RepeatContents ==
    {EmptyContent}
    \cup [kind : {"message"}, auth : {""}, from : {"alice@example.com"},
          keywords : SUBSET PhraseSet, links : {<<>>}, attachments : {<<>>},
          fault : {"none", "parse"}]

\* a caller invokes EmailAnalyzer.analyze_content(c), possibly not for the first time
AnalyzeRepeatCall ==
    /\ entry = "none"
    /\ \E c \in RepeatContents :
        /\ entry' = "analyze_content"
        /\ content' = c
        /\ stage' = "Received"
    /\ UNCHANGED <<extracted, header_analysis, content_analysis, link_analysis,
                   attachment_analysis, threat_score, result, raised>>
    /\ UNCHANGED <<fileVars, taskVars, processVars, storeVars>>

\* the invocation that has ended, as its caller sees it
Outcome ==
    [content |-> content, keyword_order |-> keyword_order, order |-> extracted,
     stage |-> stage, result |-> result, raised |-> raised]

\* analyze_content returns or raises: its locals and the analyzer instance it
\* created are gone; the caller may keep the outcome for a later comparison
AnalyzeContentReturn ==
    /\ entry = "analyze_content"
    /\ AnalyzeContentDone
    /\ previous' \in {previous, Outcome}
    /\ entry' = "none"
    /\ content' = EmptyContent
    /\ stage' = "Idle"
    /\ extracted' = <<>>
    /\ header_analysis' = Unset
    /\ content_analysis' = Unset
    /\ link_analysis' = Unset
    /\ attachment_analysis' = Unset
    /\ threat_score' = Unset
    /\ result' = NoResult
    /\ raised' = NoException
    /\ UNCHANGED <<fileVars, taskVars, keyword_order, storeVars>>

\* the next invocation runs in another interpreter (a worker on another host, a
\* restarted worker): with hash randomisation its keyword set iterates in an
\* order of its own
StartInterpreter ==
    /\ entry = "none"
    /\ \E o \in KeywordOrders :
        /\ o # keyword_order
        /\ keyword_order' = o
    /\ UNCHANGED <<entry, contentVars, fileVars, taskVars, previous, storeVars>>

NextRepeat ==
    \/ AnalyzeRepeatCall
    \/ ParseContent
    \/ AnalyzeHeaders
    \/ AnalyzeBody
    \/ AnalyzeLinks
    \/ AnalyzeAttachments
    \/ CalculateThreatScore
    \/ BuildResult
    \/ AnalyzeContentReturn
    \/ StartInterpreter

SpecRepeat == InitMime /\ [][NextRepeat]_vars

-----------------------------------------------------------------------------
(* The four extractors run in any order *)

\* the order of lines 101-104
CodeOrder == <<"header", "body", "link", "attachment">>

\* the extractor of this name has finished in the running invocation
Done(name) == \E i \in 1..Len(extracted) : extracted[i] = name

\* the extractor of this name finishes: the last of the four ends the extraction
Finish(name) ==
    /\ extracted' = Append(extracted, name)
    /\ stage' = IF Len(extracted) + 1 = Len(CodeOrder) THEN "Extracted" ELSE stage

\* messages on which each of the four extractors may find something, or fail
OrderContents ==
    [kind : {"message"}, auth : {"spf=fail; dkim=pass"}, from : {"alice@example.com"},
     keywords : SUBSET PhraseSet,
     links : {<<>>, <<"http://phishing.ml/redirect">>},
     attachments : {<<>>, <<"invoice.exe">>},
     fault : {"none", "markup", "filename"}]

\* a caller invokes analyze_content; once an outcome is kept, on that content again
AnalyzeAgainCall ==
    /\ entry = "none"
    /\ \E c \in OrderContents :
        /\ previous = NoCall \/ c = previous.content
        /\ entry' = "analyze_content"
        /\ content' = c
        /\ stage' = "Received"
    /\ UNCHANGED <<extracted, header_analysis, content_analysis, link_analysis,
                   attachment_analysis, threat_score, result, raised>>
    /\ UNCHANGED <<fileVars, taskVars, processVars, storeVars>>

HeadersInAnyOrder ==
    /\ stage = "Parsed"
    /\ ~Done("header")
    /\ header_analysis' = _analyze_headers(content)
    /\ Finish("header")
    /\ UNCHANGED <<entry, content, content_analysis, link_analysis,
                   attachment_analysis, threat_score, result, raised>>
    /\ UNCHANGED <<fileVars, taskVars, processVars, storeVars>>

BodyInAnyOrder ==
    /\ stage = "Parsed"
    /\ ~Done("body")
    /\ content_analysis' = _analyze_body(content)
    /\ Finish("body")
    /\ UNCHANGED <<entry, content, header_analysis, link_analysis,
                   attachment_analysis, threat_score, result, raised>>
    /\ UNCHANGED <<fileVars, taskVars, processVars, storeVars>>

LinksInAnyOrder ==
    /\ stage = "Parsed"
    /\ ~Done("link")
    /\ IF content.fault = "markup"
       THEN /\ stage' = "Failed"
            /\ result' = AnalysisFailedResult(content.fault)
            /\ UNCHANGED <<link_analysis, extracted>>
       ELSE /\ link_analysis' = _analyze_links(content)
            /\ Finish("link")
            /\ result' = result
    /\ UNCHANGED <<entry, content, header_analysis, content_analysis,
                   attachment_analysis, threat_score, raised>>
    /\ UNCHANGED <<fileVars, taskVars, processVars, storeVars>>

AttachmentsInAnyOrder ==
    /\ stage = "Parsed"
    /\ ~Done("attachment")
    /\ IF content.fault = "filename"
       THEN /\ stage' = "Failed"
            /\ result' = AnalysisFailedResult(content.fault)
            /\ UNCHANGED <<attachment_analysis, extracted>>
       ELSE /\ attachment_analysis' = _analyze_attachments(content)
            /\ Finish("attachment")
            /\ result' = result
    /\ UNCHANGED <<entry, content, header_analysis, content_analysis,
                   link_analysis, threat_score, raised>>
    /\ UNCHANGED <<fileVars, taskVars, processVars, storeVars>>

NextAnyOrder ==
    \/ AnalyzeAgainCall
    \/ ParseContent
    \/ HeadersInAnyOrder
    \/ BodyInAnyOrder
    \/ LinksInAnyOrder
    \/ AttachmentsInAnyOrder
    \/ CalculateThreatScore
    \/ BuildResult
    \/ AnalyzeContentReturn

SpecAnyOrder == Init /\ [][NextAnyOrder]_vars


-----------------------------------------------------------------------------
(* analyze_content over messages whose From header names a brand *)

\* messages with every modelled From header; reading Reply-To may fail
FromContents ==
    [kind : {"message"},
     auth : AuthHeaders,
     from : FromHeaders \cup FromHeadersBranded,
     keywords : SUBSET PhraseSet,
     links : {<<>>},
     attachments : {<<>>},
     fault : {"none", "reply_to"}]

AnalyzeFromCall ==
    /\ entry = "none"
    /\ \E c \in FromContents :
        /\ entry' = "analyze_content"
        /\ content' = c
        /\ stage' = "Received"
    /\ UNCHANGED <<extracted, header_analysis, content_analysis, link_analysis,
                   attachment_analysis, threat_score, result, raised>>
    /\ UNCHANGED <<fileVars, taskVars, processVars, storeVars>>

NextFrom ==
    \/ AnalyzeFromCall
    \/ ParseContent
    \/ AnalyzeHeaders
    \/ AnalyzeBody
    \/ AnalyzeLinks
    \/ AnalyzeAttachments
    \/ CalculateThreatScore
    \/ BuildResult

SpecFrom == Init /\ [][NextFrom]_vars

-----------------------------------------------------------------------------
(* _calculate_threat_score and _get_risk_level over findings that grow *)

\* a findings list of n entries
Entries(n) == [i \in 1..n |-> "finding"]

HeaderFindings(n) ==
    [suspicious_patterns |-> <<>>, authentication_results |-> AuthResults(""),
     risk_indicators |-> Entries(n)]

BodyFindings(n) ==
    [suspicious_keywords |-> Entries(n), urgency_indicators |-> <<>>,
     sentiment_analysis |-> <<>>]

LinkFindings(n, m) ==
    [suspicious_links |-> Entries(n), redirects |-> <<>>, malicious_domains |-> Entries(m)]

AttachmentFindings(n) == [suspicious_attachments |-> Entries(n), file_types |-> Entries(n)]

\* the two values computed from the four analyses
Scored(h, c, l, a) ==
    [threat_score |-> _calculate_threat_score(h, c, l, a),
     risk_level |-> _get_risk_level(_calculate_threat_score(h, c, l, a))]

\* findings of at most one entry per list, scored
InitScore ==
    /\ entry = "_calculate_threat_score"
    /\ content = EmptyContent
    /\ stage = "Scored"
    /\ extracted = CodeOrder
    /\ \E n \in 0..1 : header_analysis = HeaderFindings(n)
    /\ \E n \in 0..1 : content_analysis = BodyFindings(n)
    /\ \E n \in 0..1, m \in 0..1 : link_analysis = LinkFindings(n, m)
    /\ \E n \in 0..1 : attachment_analysis = AttachmentFindings(n)
    /\ threat_score = _calculate_threat_score(header_analysis, content_analysis,
                                              link_analysis, attachment_analysis)
    /\ result = Scored(header_analysis, content_analysis, link_analysis,
                       attachment_analysis)
    /\ raised = NoException
    /\ file = NoFile
    /\ fsExists = FALSE
    /\ fstage = "Idle"
    /\ fresult = NoResult
    /\ fraised = NoException
    /\ tstage = "Idle"
    /\ retries = 0
    /\ taskState = "NONE"
    /\ payload = NoResult
    /\ countdown = 0
    /\ keyword_order = Phrases
    /\ previous = NoCall
    /\ LimiterIdle
    /\ HistoryIdle

\* the analyses with one list one entry longer are scored
Rescore(h, c, l, a) ==
    /\ header_analysis' = h
    /\ content_analysis' = c
    /\ link_analysis' = l
    /\ attachment_analysis' = a
    /\ threat_score' = _calculate_threat_score(h, c, l, a)
    /\ result' = Scored(h, c, l, a)
    /\ UNCHANGED <<entry, content, stage, extracted, raised>>
    /\ UNCHANGED <<fileVars, taskVars, processVars, storeVars>>

AddRiskIndicator ==
    /\ Len(header_analysis.risk_indicators) < MaxFindings
    /\ Rescore(HeaderFindings(Len(header_analysis.risk_indicators) + 1),
               content_analysis, link_analysis, attachment_analysis)

AddSuspiciousKeyword ==
    /\ Len(content_analysis.suspicious_keywords) < MaxFindings
    /\ Rescore(header_analysis,
               BodyFindings(Len(content_analysis.suspicious_keywords) + 1),
               link_analysis, attachment_analysis)

AddSuspiciousLink ==
    /\ Len(link_analysis.suspicious_links) < MaxFindings
    /\ Rescore(header_analysis, content_analysis,
               LinkFindings(Len(link_analysis.suspicious_links) + 1,
                            Len(link_analysis.malicious_domains)),
               attachment_analysis)

AddMaliciousDomain ==
    /\ Len(link_analysis.malicious_domains) < MaxFindings
    /\ Rescore(header_analysis, content_analysis,
               LinkFindings(Len(link_analysis.suspicious_links),
                            Len(link_analysis.malicious_domains) + 1),
               attachment_analysis)

AddSuspiciousAttachment ==
    /\ Len(attachment_analysis.suspicious_attachments) < MaxFindings
    /\ Rescore(header_analysis, content_analysis, link_analysis,
               AttachmentFindings(Len(attachment_analysis.suspicious_attachments) + 1))

NextScore ==
    \/ AddRiskIndicator
    \/ AddSuspiciousKeyword
    \/ AddSuspiciousLink
    \/ AddMaliciousDomain
    \/ AddSuspiciousAttachment

SpecScore == InitScore /\ [][NextScore]_vars

-----------------------------------------------------------------------------
(* analyze_content_task, and both tasks under a worker that keeps running *)

ContentTaskErrorResult(e) ==
    [error |-> <<e.message>>,
     threat_score |-> 0,
     risk_level |-> "unknown",
     message |-> "Analysis failed due to email processing error"]

\* the messages the jobs are given: every fault, with and without findings
TaskMessages(faults) ==
    [kind : {"message"},
     auth : {"", "spf=fail; dkim=fail"},
     from : {"alice@example.com"},
     keywords : {{}, PhraseSet},
     links : {<<>>},
     attachments : SeqsUpTo(Filenames, MaxAttachments),
     fault : faults]

TaskContents == {EmptyContent, BlankContent} \cup TaskMessages(Faults)

TaskFiles ==
    {f \in [path : {"uploads/mail"}, ext : Extensions, exists : BOOLEAN,
            readable : BOOLEAN, size : FileSizes,
            content : {BlankContent} \cup TaskMessages(FileFaults)] :
        /\ (~f.exists => ~f.readable /\ f.size = 0)
        /\ (~PassesChecks(f) => f.content = BlankContent)}

\* analyze_content_task.delay(content)
AnalyzeContentTaskCall ==
    /\ entry = "none"
    /\ \E c \in TaskContents :
        /\ entry' = "analyze_content_task"
        /\ content' = c
    /\ tstage' = "Queued"
    /\ taskState' = "PENDING"
    /\ UNCHANGED <<stage, extracted, header_analysis, content_analysis, link_analysis,
                   attachment_analysis, threat_score, result, raised>>
    /\ UNCHANGED <<retries, payload, countdown>>
    /\ UNCHANGED <<fileVars, processVars, storeVars>>

\* analyze_file_task.delay(file_path), for the files of this specification
AnalyzeTaskFileCall ==
    /\ entry = "none"
    /\ \E f \in TaskFiles \cup {NoFile} :
        /\ entry' = "analyze_file_task"
        /\ file' = f
        /\ fsExists' = f.exists
    /\ tstage' = "Queued"
    /\ taskState' = "PENDING"
    /\ UNCHANGED <<fstage, fresult, fraised, retries, payload, countdown>>
    /\ UNCHANGED <<contentVars, processVars, storeVars>>

\* a worker starts an execution: the empty check and the call of analyze_content
ContentTaskRun ==
    /\ entry = "analyze_content_task"
    /\ tstage = "Queued"
    /\ IF content.kind \in {"empty", "blank"}
       THEN /\ Retry
            /\ stage' = "Idle"
       ELSE /\ tstage' = "Running"
            /\ taskState' = "STARTED"
            /\ stage' = "Received"
            /\ UNCHANGED <<retries, countdown>>
    /\ extracted' = <<>>
    /\ header_analysis' = Unset
    /\ content_analysis' = Unset
    /\ link_analysis' = Unset
    /\ attachment_analysis' = Unset
    /\ threat_score' = Unset
    /\ result' = NoResult
    /\ raised' = NoException
    /\ UNCHANGED <<entry, content, payload>>
    /\ UNCHANGED <<fileVars, processVars, storeVars>>

\* analyze_content has ended: its result is the payload; its EmailParsingError,
\* an EmailAnalysisError, is turned into the error payload
ContentTaskFinish ==
    /\ entry = "analyze_content_task"
    /\ tstage = "Running"
    /\ AnalyzeContentDone
    /\ payload' = IF stage = "Raised" THEN ContentTaskErrorResult(raised) ELSE result
    /\ taskState' = "SUCCESS"
    /\ tstage' = "Done"
    /\ UNCHANGED <<entry, retries, countdown>>
    /\ UNCHANGED <<contentVars, fileVars, processVars, storeVars>>

\* what the worker and the code it runs do, once a job is queued
TaskStep ==
    \/ ContentTaskRun
    \/ ContentTaskFinish
    \/ TaskRun
    \/ TaskFinish
    \/ ParseContent
    \/ AnalyzeHeaders
    \/ AnalyzeBody
    \/ AnalyzeLinks
    \/ AnalyzeAttachments
    \/ CalculateThreatScore
    \/ BuildResult
    \/ CheckFile
    \/ ReadFile
    \/ FileReturn

NextTask ==
    \/ AnalyzeContentTaskCall
    \/ AnalyzeTaskFileCall
    \/ TaskStep

\* the worker does not stop while a job is queued or running
SpecTask == Init /\ [][NextTask]_vars /\ WF_vars(TaskStep)

-----------------------------------------------------------------------------
(* HistoryService.save_analysis_result and update_daily_statistics *)

TaskIds == 1..MaxTaskIds

Days == 1..MaxDays

\* the analysis_result dicts handed to the service: scored and failed ones
SavedResults ==
    {[threat_score |-> 0, risk_level |-> "unknown"],
     [threat_score |-> 0, risk_level |-> "low"],
     [threat_score |-> 40, risk_level |-> "medium"],
     [threat_score |-> 100, risk_level |-> "high"]}

AnalysisTypes == {"content", "file"}

\* what the database does during a call (at most one thing):
\*   query       the lookup of line 21 raises
\*   commit      the commit of the new record (line 35) raises
\*   statistics  a statement of update_daily_statistics (lines 55-81) raises
DbFaults == {"none", "query", "commit", "statistics"}

\* AnalysisResult.create_from_analysis, with the columns the service reads
create_from_analysis(task_id, analysis_result, analysis_type) ==
    [task_id |-> task_id,
     threat_score |-> analysis_result.threat_score,
     risk_level |-> analysis_result.risk_level,
     analysis_type |-> analysis_type,
     created_at |-> today]

\* a row of analysis_statistics as the database holds it once inserted with the
\* column defaults
StatisticsRow(day) ==
    [date |-> day, total_analyses |-> 0, high_risk_count |-> 0,
     medium_risk_count |-> 0, low_risk_count |-> 0,
     file_analyses |-> 0, content_analyses |-> 0,
     avg_threat_score |-> [sum |-> 0, count |-> 0]]

RECURSIVE SumScores(_)
SumScores(rows) ==
    IF rows = {} THEN 0
    ELSE LET r == CHOOSE x \in rows : TRUE
         IN  r.threat_score + SumScores(rows \ {r})

\* func.avg(threat_score) over the records created today, kept as sum and count
AvgThreatScore(rows) ==
    LET todays == {r \in rows : r.created_at = today}
    IN  [sum |-> SumScores(todays), count |-> Cardinality(todays)]

\* lines 61-79 on a row loaded from the table
Counted(stats, record, rows) ==
    [date |-> stats.date,
     total_analyses |-> stats.total_analyses + 1,
     high_risk_count |-> stats.high_risk_count
                         + (IF record.risk_level = "high" THEN 1 ELSE 0),
     medium_risk_count |-> stats.medium_risk_count
                           + (IF record.risk_level = "medium" THEN 1 ELSE 0),
     low_risk_count |-> stats.low_risk_count
                        + (IF record.risk_level = "low" THEN 1 ELSE 0),
     file_analyses |-> stats.file_analyses
                       + (IF record.analysis_type = "file" THEN 1 ELSE 0),
     content_analyses |-> stats.content_analyses
                          + (IF record.analysis_type = "file" THEN 0 ELSE 1),
     avg_threat_score |-> AvgThreatScore(rows)]

\* update_daily_statistics(result), called after the record is committed.  A row
\* for today that is not in the table yet is built by AnalysisStatistics(date=today):
\* its counters are None until the row is inserted, so line 61 raises TypeError,
\* which the except of lines 84-86 logs and rolls back.
update_daily_statistics(record, fault) ==
    LET found == {r \in analysis_statistics : r.date = today}
    IN  IF fault = "statistics" \/ found = {}
        THEN UNCHANGED <<analysis_statistics, counted>>
        ELSE LET stats == CHOOSE r \in found : TRUE
             IN  /\ analysis_statistics' =
                        (analysis_statistics \ {stats})
                        \cup {Counted(stats, record, analysis_results')}
                 /\ counted' = Append(counted, record.task_id)

\* one call of save_analysis_result(task_id, analysis_result, analysis_type)
SaveAnalysisResult ==
    \E task_id \in TaskIds, analysis_result \in SavedResults,
       analysis_type \in AnalysisTypes, fault \in DbFaults :
        /\ entry \in {"none", "save_analysis_result"}
        /\ entry' = "save_analysis_result"
        /\ IF fault = "query"
           THEN /\ saved' = "False"
                /\ UNCHANGED <<analysis_results, analysis_statistics, counted>>
           ELSE IF \E r \in analysis_results : r.task_id = task_id
           THEN /\ saved' = "True"
                /\ UNCHANGED <<analysis_results, analysis_statistics, counted>>
           ELSE IF fault = "commit"
           THEN /\ saved' = "False"
                /\ UNCHANGED <<analysis_results, analysis_statistics, counted>>
           ELSE /\ analysis_results' = analysis_results
                        \cup {create_from_analysis(task_id, analysis_result, analysis_type)}
                /\ update_daily_statistics(
                       create_from_analysis(task_id, analysis_result, analysis_type), fault)
                /\ saved' = "True"
        /\ UNCHANGED <<today, limiterVars>>
        /\ UNCHANGED <<contentVars, fileVars, taskVars, processVars>>

\* midnight passes
NextDay ==
    /\ entry \in {"none", "save_analysis_result"}
    /\ today < MaxDays
    /\ today' = today + 1
    /\ UNCHANGED <<entry, analysis_results, analysis_statistics, counted, saved, limiterVars>>
    /\ UNCHANGED <<contentVars, fileVars, taskVars, processVars>>

\* the tables as the service finds them: no records; statistics rows only where
\* something other than the service has inserted one
InitHistory ==
    /\ entry = "none"
    /\ content = EmptyContent
    /\ ContentFrameIdle
    /\ file = NoFile
    /\ fsExists = FALSE
    /\ fstage = "Idle"
    /\ fresult = NoResult
    /\ fraised = NoException
    /\ tstage = "Idle"
    /\ retries = 0
    /\ taskState = "NONE"
    /\ payload = NoResult
    /\ countdown = 0
    /\ keyword_order = Phrases
    /\ previous = NoCall
    /\ LimiterIdle
    /\ today = 1
    /\ analysis_results = {}
    /\ \E days \in SUBSET Days : analysis_statistics = {StatisticsRow(d) : d \in days}
    /\ counted = <<>>
    /\ saved = "none"

NextHistory ==
    \/ SaveAnalysisResult
    \/ NextDay

SpecHistory == InitHistory /\ [][NextHistory]_vars

-----------------------------------------------------------------------------
(* rate_limit: the decorator around a view function, and its Redis key *)

\* API_RATE_LIMIT settings, each as rate_limit.split() cuts it
RateLimits ==
    {<<"0", "per", "hour">>, <<"1", "per", "second">>, <<"2", "per", "Minute">>,
     <<"2", "per", "fortnight">>, <<"ten", "per", "hour">>, <<"2/minute">>}

\* int(count): the value, or ValueError (-1 here) for a word that is no number
ParseInt(word) ==
    CASE word = "0" -> 0
      [] word = "1" -> 1
      [] word = "2" -> 2
      [] word = "100" -> 100
      [] OTHER -> -1

\* period_map.get(period.lower(), 3600)
PeriodSeconds(period) ==
    CASE period \in {"second"} -> 1
      [] period \in {"minute", "Minute"} -> 60
      [] period \in {"hour"} -> 3600
      [] period \in {"day"} -> 86400
      [] OTHER -> 3600

\* (limit, period in seconds); (100, 3600) when the setting cannot be parsed
_parse_rate_limit(rate_limit) ==
    IF Len(rate_limit) # 3 \/ ParseInt(rate_limit[1]) < 0
    THEN [limit |-> 100, period |-> 3600]
    ELSE [limit |-> ParseInt(rate_limit[1]), period |-> PeriodSeconds(rate_limit[3])]

\* r.get(key) of a key that does not exist
Nil == -1

\* a request that has entered decorated_function
NewRequest == [pc |-> "get", current |-> Nil, calls |-> 0, status |-> 0, failed |-> "none"]

\* SETEX key period 1
SetEx(period) == [exists |-> TRUE, value |-> 1, ttl |-> period]

\* INCR key: a key that does not exist is created at 1, without expiry
Incr ==
    IF redis_key.exists
    THEN [redis_key EXCEPT !.value = @ + 1]
    ELSE [exists |-> TRUE, value |-> 1, ttl |-> 0]

\* lines 44-58 after the read: what the request does to the key
Written(i) ==
    LET limit == _parse_rate_limit(api_rate_limit).limit
        period == _parse_rate_limit(api_rate_limit).period
    IN  IF requests[i].current = Nil THEN SetEx(period)
        ELSE IF requests[i].current >= limit THEN redis_key
        ELSE Incr

\* a request reaches the decorator while no other request is in it
RequestArrives ==
    /\ entry \in {"none", "rate_limit"}
    /\ Len(requests) < MaxRequests
    /\ \A i \in 1..Len(requests) : requests[i].pc = "done"
    /\ entry' = "rate_limit"
    /\ requests' = Append(requests, NewRequest)
    /\ UNCHANGED <<api_rate_limit, redis_key, admitted, historyVars>>
    /\ UNCHANGED <<contentVars, fileVars, taskVars, processVars>>

\* a request reaches the decorator, whatever the other requests are doing
RequestArrivesMeanwhile ==
    /\ entry \in {"none", "rate_limit"}
    /\ Len(requests) < MaxRequests
    /\ entry' = "rate_limit"
    /\ requests' = Append(requests, NewRequest)
    /\ UNCHANGED <<api_rate_limit, redis_key, admitted, historyVars>>
    /\ UNCHANGED <<contentVars, fileVars, taskVars, processVars>>

\* current = r.get(key)
Get ==
    \E i \in 1..Len(requests) :
        /\ requests[i].pc = "get"
        /\ requests' = [requests EXCEPT
                            ![i].pc = "update",
                            ![i].current = IF redis_key.exists THEN redis_key.value ELSE Nil]
        /\ UNCHANGED <<entry, api_rate_limit, redis_key, admitted, historyVars>>
        /\ UNCHANGED <<contentVars, fileVars, taskVars, processVars>>

\* r.setex(key, period, 1), or the 429 with r.ttl(key), or r.incr(key); past
\* setex and incr nothing stands between the request and line 60
Update ==
    \E i \in 1..Len(requests) :
        /\ requests[i].pc = "update"
        /\ redis_key' = Written(i)
        /\ requests' =
              IF requests[i].current # Nil
                 /\ requests[i].current >= _parse_rate_limit(api_rate_limit).limit
              THEN [requests EXCEPT ![i].pc = "done", ![i].status = 429]
              ELSE [requests EXCEPT ![i].pc = "call"]
        /\ admitted' = IF requests'[i].pc = "call" THEN admitted + 1 ELSE admitted
        /\ UNCHANGED <<entry, api_rate_limit, historyVars>>
        /\ UNCHANGED <<contentVars, fileVars, taskVars, processVars>>

\* return f(*args, **kwargs): the view returns, or raises an error of its own
CallWrapped ==
    \E i \in 1..Len(requests), status \in {200, 500} :
        /\ requests[i].pc = "call"
        /\ requests' = [requests EXCEPT
                            ![i].pc = "done", ![i].calls = @ + 1, ![i].status = status]
        /\ UNCHANGED <<entry, api_rate_limit, redis_key, admitted, historyVars>>
        /\ UNCHANGED <<contentVars, fileVars, taskVars, processVars>>

\* the period set by SETEX has passed: Redis drops the key
Expire ==
    /\ redis_key.exists
    /\ redis_key.ttl > 0
    /\ redis_key' = NoKey
    /\ admitted' = 0
    /\ UNCHANGED <<entry, api_rate_limit, requests, historyVars>>
    /\ UNCHANGED <<contentVars, fileVars, taskVars, processVars>>

\* no request yet, no key, any of the settings
InitLimiter ==
    /\ entry = "none"
    /\ content = EmptyContent
    /\ ContentFrameIdle
    /\ file = NoFile
    /\ fsExists = FALSE
    /\ fstage = "Idle"
    /\ fresult = NoResult
    /\ fraised = NoException
    /\ tstage = "Idle"
    /\ retries = 0
    /\ taskState = "NONE"
    /\ payload = NoResult
    /\ countdown = 0
    /\ keyword_order = Phrases
    /\ previous = NoCall
    /\ api_rate_limit \in RateLimits
    /\ redis_key = NoKey
    /\ requests = <<>>
    /\ admitted = 0
    /\ HistoryIdle

\* requests one at a time, Redis available
NextLimiter ==
    \/ RequestArrives
    \/ Get
    \/ Update
    \/ CallWrapped
    \/ Expire

SpecLimiter == InitLimiter /\ [][NextLimiter]_vars

\* concurrent requests, Redis available
NextLimiterConcurrent ==
    \/ RequestArrivesMeanwhile
    \/ Get
    \/ Update
    \/ CallWrapped
    \/ Expire

SpecLimiterConcurrent == InitLimiter /\ [][NextLimiterConcurrent]_vars

\* the Redis call the request is about to make at lines 46-58
Operation(request) ==
    IF request.current = Nil THEN "setex"
    ELSE IF request.current >= _parse_rate_limit(api_rate_limit).limit THEN "ttl"
    ELSE "incr"

\* r.get(key) raises redis.RedisError
GetFails ==
    \E i \in 1..Len(requests) :
        /\ requests[i].pc = "get"
        /\ requests' = [requests EXCEPT ![i].pc = "except", ![i].failed = "get"]
        /\ UNCHANGED <<entry, api_rate_limit, redis_key, admitted, historyVars>>
        /\ UNCHANGED <<contentVars, fileVars, taskVars, processVars>>

\* r.setex, r.ttl or r.incr raises redis.RedisError; the server may or may
\* not have carried the command out before the client gave up
UpdateFails ==
    \E i \in 1..Len(requests), carried_out \in BOOLEAN :
        /\ requests[i].pc = "update"
        /\ redis_key' = IF carried_out THEN Written(i) ELSE redis_key
        /\ requests' = [requests EXCEPT
                            ![i].pc = "except", ![i].failed = Operation(requests[i])]
        /\ UNCHANGED <<entry, api_rate_limit, admitted, historyVars>>
        /\ UNCHANGED <<contentVars, fileVars, taskVars, processVars>>

\* return f(*args, **kwargs) at line 60, and the view raises redis.RedisError
CallWrappedRaises ==
    \E i \in 1..Len(requests) :
        /\ requests[i].pc = "call"
        /\ requests' = [requests EXCEPT
                            ![i].pc = "except", ![i].calls = @ + 1, ![i].failed = "f"]
        /\ UNCHANGED <<entry, api_rate_limit, redis_key, admitted, historyVars>>
        /\ UNCHANGED <<contentVars, fileVars, taskVars, processVars>>

\* what a fail-closed handler would do: answer 429 without the view
Fallback_refuses ==
    \E i \in 1..Len(requests) :
        /\ requests[i].pc = "except"
        /\ requests' = [requests EXCEPT ![i].pc = "done", ![i].status = 429]
        /\ UNCHANGED <<entry, api_rate_limit, redis_key, admitted, historyVars>>
        /\ UNCHANGED <<contentVars, fileVars, taskVars, processVars>>

\* except redis.RedisError: log, then return f(*args, **kwargs) at line 65;
\* an error the view raises here leaves the decorator
Fallback ==
    \E i \in 1..Len(requests), status \in {200, 500} :
        /\ requests[i].pc = "except"
        /\ requests' = [requests EXCEPT
                            ![i].pc = "done", ![i].calls = @ + 1, ![i].status = status]
        /\ UNCHANGED <<entry, api_rate_limit, redis_key, admitted, historyVars>>
        /\ UNCHANGED <<contentVars, fileVars, taskVars, processVars>>

\* requests one at a time, any Redis call may fail
NextLimiterFaults ==
    \/ RequestArrives
    \/ Get
    \/ GetFails
    \/ Update
    \/ UpdateFails
    \/ CallWrapped
    \/ CallWrappedRaises
    \/ Fallback
    \/ Expire

SpecLimiterFaults == InitLimiter /\ [][NextLimiterFaults]_vars

-----------------------------------------------------------------------------
(* Properties *)

\* the result values a caller holds: of analyze_content, of analyze_file, and
\* the payload of the job
DeliveredResults ==
    (IF stage \in {"Returned", "Failed"} THEN {result} ELSE {})
    \cup (IF fstage = "Returned" THEN {fresult} ELSE {})
    \cup (IF taskState = "SUCCESS" THEN {payload} ELSE {})

\* the score has been computed and the findings are those it was computed from
ScoreComputed == stage \in {"Scored", "Returned"}

\* C1: every result any entry point yields carries a threat_score within
\* [0.0, 1.0] (0..100 hundredths), and the score _calculate_threat_score
\* computes is within that range for every combination of findings.
C1_ScoreInRange ==
    /\ \A r \in DeliveredResults : r.threat_score >= 0 /\ r.threat_score <= 100
    /\ ScoreComputed => threat_score >= 0 /\ threat_score <= 100

\* C1 witness: a result is returned whose weighted sum exceeds 1.0.
C1_Witness ==
    /\ stage = "Returned"
    /\ _calculate_threat_score_unclamped(header_analysis, content_analysis,
                                         link_analysis, attachment_analysis) > 100
    /\ result.threat_score = 100

\* C2: a result of analyze_content has risk_level "unknown" exactly when its
\* top-level error field is set; a result of the scoring path is low, medium or
\* high and has no top-level error.
C2_UnknownIffError ==
    /\ stage \in {"Returned", "Failed"} =>
          ((result.risk_level = "unknown") <=> ("error" \in DOMAIN result))
    /\ stage = "Returned" =>
          /\ result.risk_level \in {"low", "medium", "high"}
          /\ "error" \notin DOMAIN result

\* C2 witness: a scored result of the lowest tier, whose header findings carry
\* an error of their own.
C2_Witness ==
    /\ stage = "Returned"
    /\ result.risk_level = "low"
    /\ "error" \in DOMAIN result.header_analysis
    /\ "error" \notin DOMAIN result

\* C3: in tenths, the score is min(3h + 2k + 3(s + 2m) + 2a, 10) of the five
\* finding counts; suspicious_patterns, urgency_indicators, redirects and
\* file_types do not enter it.
C3_ScoreFormula ==
    ScoreComputed =>
        LET h == Len(header_analysis.risk_indicators)
            k == Len(content_analysis.suspicious_keywords)
            s == Len(link_analysis.suspicious_links)
            m == Len(link_analysis.malicious_domains)
            a == Len(attachment_analysis.suspicious_attachments)
            tenths == 3 * h + 2 * k + 3 * (s + 2 * m) + 2 * a
        IN  threat_score = 10 * (IF tenths < 10 THEN tenths ELSE 10)

\* C3 witness: a score of 0.9 from one risk indicator and one malicious domain,
\* with every list that does not count non-empty.
C3_Witness ==
    /\ stage = "Scored"
    /\ threat_score = 90
    /\ Len(link_analysis.malicious_domains) = 1
    /\ Len(header_analysis.risk_indicators) = 1
    /\ header_analysis.suspicious_patterns # <<>>
    /\ content_analysis.urgency_indicators = <<>>
    /\ attachment_analysis.file_types # <<>>

\* C3 witness of the lists that do not count: a score of 0.7 beside a spoofing
\* pattern, urgency indicators, a redirect and a harmless attachment.
C3_WitnessIgnored ==
    /\ stage = "Scored"
    /\ threat_score = 70
    /\ header_analysis.suspicious_patterns # <<>>
    /\ content_analysis.urgency_indicators # <<>>
    /\ link_analysis.redirects # <<>>
    /\ attachment_analysis.file_types # <<>>

IsFailedResult(r) ==
    /\ r # NoResult
    /\ "error" \in DOMAIN r
    /\ r.threat_score = 0
    /\ r.risk_level = "unknown"

EmptyInput == content.kind \in {"empty", "blank"}

UnparsableInput == content.kind = "message" /\ content.fault = "parse"

RequiredKeys ==
    {"threat_score", "risk_level", "header_analysis", "content_analysis",
     "link_analysis", "attachment_analysis", "recommendations", "subject",
     "sender", "timestamp"}

\* C6 as stated: every result a caller receives from analyze_content or
\* analyze_file, on success or failure, holds all ten fields of an
\* AnalysisResult.
C6_StructurallyComplete ==
    /\ stage \in {"Returned", "Failed"} => RequiredKeys \subseteq DOMAIN result
    /\ fstage = "Returned" => RequiredKeys \subseteq DOMAIN fresult

ExtractorFaults == {"reply_to", "payload", "markup", "filename"}

\* C7 as stated: a failure inside a single extractor degrades only that
\* extractor's findings; the other extractors run, the score is computed and
\* the result has a low, medium or high tier.
C7_ExtractorFailureIsLocal ==
    (AnalyzeContentDone /\ content.kind = "message" /\ content.fault \in ExtractorFaults) =>
        /\ stage = "Returned"
        /\ extracted = <<"header", "body", "link", "attachment">>
        /\ result.risk_level \in {"low", "medium", "high"}

\* the file fails one of the checks of analyze_file
FailsChecks == file # NoFile /\ ~(PassesChecks(file) /\ fsExists)

\* C8 as stated: a failed check of the path (missing, unreadable, oversized,
\* empty, wrong extension) is reported as FileValidationError and never as
\* EmailParsingError; EmailParsingError is raised only for a file that passed
\* all the checks.
C8_ValidationErrorKind ==
    fstage = "Raised" =>
        /\ FailsChecks => fraised.type = "FileValidationError"
        /\ fraised.type = "EmailParsingError" => ~FailsChecks

\* the file given to the analysis is missing, unreadable, empty, oversized,
\* wrongly named or unparsable
BadFileInput ==
    /\ file # NoFile
    /\ \/ ~PassesChecks(file)
       \/ (file.content.kind = "message" /\ file.content.fault = "parse")

\* C9 as stated: for a bad file the outcome of analyze_file, and the payload of
\* analyze_file_task, is a Failed-state result (error, score 0.0, "unknown"):
\* no exception escapes and the job is never retried.
C9_BadFileYieldsFailedResult ==
    BadFileInput =>
        /\ AnalyzeFileDone => (fstage = "Returned" /\ IsFailedResult(fresult))
        /\ entry = "analyze_file_task" =>
              /\ retries = 0
              /\ taskState \notin {"RETRY", "FAILURE"}
              /\ TaskDone => IsFailedResult(payload)

Running == {"Received", "Parsed", "Extracted", "Scored"}

ContentStep ==
    \/ ParseContent
    \/ AnalyzeHeaders
    \/ AnalyzeBody
    \/ AnalyzeLinks
    \/ AnalyzeAttachments
    \/ CalculateThreatScore
    \/ BuildResult

\* the ends of an invocation: a scored result, a failed result, or the parser's
\* exception and no result
C10_Ends ==
    /\ stage = "Returned" =>
          /\ result # NoResult /\ "error" \notin DOMAIN result
          /\ raised = NoException
    /\ stage = "Failed" => IsFailedResult(result) /\ raised = NoException
    /\ stage = "Raised" =>
          /\ raised.type = "EmailParsingError"
          /\ result = NoResult
          /\ extracted = <<>>
    /\ stage \in Running =>
          /\ result = NoResult /\ raised = NoException
          /\ ENABLED ContentStep
    /\ stage \in {"Extracted", "Scored", "Returned"} =>
          extracted = <<"header", "body", "link", "attachment">>

\* the order of the stages; a new invocation starts from Idle
C10_Order ==
    \/ stage' = stage
    \/ stage = "Idle" /\ stage' = "Received"
    \/ stage = "Received" /\ stage' \in {"Parsed", "Failed", "Raised"}
    \/ stage = "Parsed" /\ stage' \in {"Extracted", "Failed"}
    \/ stage = "Extracted" /\ stage' = "Scored"
    \/ stage = "Scored" /\ stage' \in {"Returned", "Failed"}
    \/ AnalyzeContentDone /\ stage' = "Idle"

\* nothing of an invocation that has ended changes, until a new one starts
C10_EndIsFinal ==
    AnalyzeContentDone =>
        \/ stage' = "Idle"
        \/ UNCHANGED <<stage, extracted, header_analysis, content_analysis,
                       link_analysis, attachment_analysis, threat_score, result, raised>>

C11_RecommendationsNonEmpty ==
    /\ stage = "Returned" => Len(result.recommendations) >= 1
    /\ ScoreComputed =>
          Len(_generate_recommendations(header_analysis, content_analysis,
                                        link_analysis, attachment_analysis)) >= 1

\* C11 witness: a result is returned for a message in which nothing was found.
C11_Witness ==
    /\ stage = "Returned"
    /\ header_analysis.risk_indicators = <<>>
    /\ content_analysis.suspicious_keywords = <<>>
    /\ link_analysis.suspicious_links = <<>>
    /\ link_analysis.malicious_domains = <<>>
    /\ attachment_analysis.suspicious_attachments = <<>>
    /\ Len(result.recommendations) = 1

\* the header, body, link and attachment advisories, in that order
Advisories ==
    <<"The email failed security verification checks. Be extremely cautious.",
      "This email contains common phishing phrases. Verify any requests through official channels.",
      "Do not click on any links. If necessary, manually type the URL in your browser.",
      "This email contains potentially dangerous attachments. Do not open them.">>

SafeAdvice == "This email appears to be safe, but always remain vigilant."

\* the trigger of the i-th advisory in the findings of a returned result
Triggered(r, i) ==
    CASE i = 1 -> r.header_analysis.risk_indicators # <<>>
      [] i = 2 -> r.content_analysis.suspicious_keywords # <<>>
      [] i = 3 -> \/ r.link_analysis.suspicious_links # <<>>
                  \/ r.link_analysis.malicious_domains # <<>>
      [] i = 4 -> r.attachment_analysis.suspicious_attachments # <<>>

\* C12: the recommendations of a returned result hold each advisory at most
\* once, exactly when its trigger list is non-empty, in the order header, body,
\* link, attachment; the "appears safe" message is the whole list exactly when
\* no trigger fires, and otherwise absent.  Nothing but the triggers decides.
C12_AdvisoriesFollowTriggers ==
    stage = "Returned" =>
        LET recs == result.recommendations
            At(i) == {n \in 1..Len(recs) : recs[n] = Advisories[i]}
            none == \A i \in 1..4 : ~Triggered(result, i)
        IN  /\ \A n \in 1..Len(recs) :
                  recs[n] = SafeAdvice \/ \E i \in 1..4 : recs[n] = Advisories[i]
            /\ \A i \in 1..4 :
                  /\ Cardinality(At(i)) <= 1
                  /\ (At(i) # {}) <=> Triggered(result, i)
            /\ \A i, j \in 1..4 :
                  i < j => \A n \in At(i), m \in At(j) : n < m
            /\ none <=> (recs = <<SafeAdvice>>)
            /\ ~none => \A n \in 1..Len(recs) : recs[n] # SafeAdvice

\* C12 witness: all four advisories are returned, the link one on account of a
\* malicious domain alone.
C12_Witness ==
    /\ stage = "Returned"
    /\ result.recommendations = Advisories
    /\ link_analysis.suspicious_links = <<>>
    /\ link_analysis.malicious_domains # <<>>

\* the mechanisms whose pass token the header value holds, in any case
PassTokens(auth) ==
    CASE auth \in {"spf=pass; dkim=pass", "SPF=Pass; DKIM=PASS"} -> {"spf", "dkim"}
      [] auth = "spf=pass; dkim=fail" -> {"spf"}
      [] auth = "spf=fail; dkim=pass" -> {"dkim"}
      [] OTHER -> {}

\* how often x occurs in the sequence s
Count(s, x) == Cardinality({i \in 1..Len(s) : s[i] = x})

\* C15: an absent or empty Authentication-Results header yields empty
\* authentication_results and no risk indicator; a present one yields, for spf
\* and dkim independently, "passed" and no indicator when it holds the pass
\* token in any case, "failed" and exactly one indicator otherwise; the header
\* "spf=fail; dkim=fail" gives two indicators and {spf: failed, dkim: failed}.
C15_AuthenticationResults ==
    (content.kind = "message" /\ Done("header")) =>
        LET auth == content.auth
            results == header_analysis.authentication_results
            indicators == header_analysis.risk_indicators
        IN  /\ auth = "" => (DOMAIN results = {} /\ indicators = <<>>)
            /\ auth # "" =>
                  /\ DOMAIN results = {"spf", "dkim"}
                  /\ \A m \in {"spf", "dkim"} :
                        results[m] = IF m \in PassTokens(auth) THEN "passed" ELSE "failed"
                  /\ Count(indicators, "SPF verification failed")
                        = (IF "spf" \in PassTokens(auth) THEN 0 ELSE 1)
                  /\ Count(indicators, "DKIM verification failed")
                        = (IF "dkim" \in PassTokens(auth) THEN 0 ELSE 1)
                  /\ Len(indicators) = Cardinality({"spf", "dkim"} \ PassTokens(auth))
            /\ auth = "spf=fail; dkim=fail" =>
                  /\ results = [spf |-> "failed", dkim |-> "failed"]
                  /\ Len(indicators) = 2

\* C15 witness: a header holding both pass tokens in upper and mixed case has
\* been analysed.
C15_Witness ==
    /\ content.kind = "message"
    /\ Done("header")
    /\ content.auth = "SPF=Pass; DKIM=PASS"
    /\ header_analysis.authentication_results = [spf |-> "passed", dkim |-> "passed"]
    /\ header_analysis.risk_indicators = <<>>

\* C15 witness of the failing header: one that names no mechanism fails both.
C15_WitnessFailed ==
    /\ content.kind = "message"
    /\ Done("header")
    /\ content.auth = "mx.example.com; none"
    /\ Len(header_analysis.risk_indicators) = 2

\* the leaf parts of the message the running invocation was given
ContentParts == Mime(content).parts

\* the non-empty hrefs of the anchors in the text/html payloads of the message
HtmlHrefs ==
    UNION {{ContentParts[i].payload[j].value :
                j \in {j \in 1..Len(ContentParts[i].payload) :
                          /\ ContentParts[i].payload[j].tag = "a"
                          /\ ContentParts[i].payload[j].value # ""}} :
            i \in {i \in 1..Len(ContentParts) : ContentParts[i].ctype = "text/html"}}

\* the members of a sequence
Range(s) == {s[i] : i \in 1..Len(s)}

\* C16 as stated: for a message with an HTML body, be it a single text/html
\* payload or a multipart message with a text/html part, every non-empty href
\* of the HTML's anchors is examined: a shortener such as http://bit.ly/xyz is
\* in suspicious_links and the host of http://secure-verify.tk/login is in
\* malicious_domains.
C16_HtmlAnchorsExamined ==
    (content.kind = "message" /\ content.fault = "none" /\ Done("link")) =>
        \A href \in HtmlHrefs :
            /\ _check_deceptive_url(href) => href \in Range(link_analysis.suspicious_links)
            /\ _check_redirect(href) => href \in Range(link_analysis.redirects)
            /\ _check_domain_reputation(Netloc(href)) =>
                  Netloc(href) \in Range(link_analysis.malicious_domains)
            /\ href = "http://bit.ly/xyz" => href \in Range(link_analysis.suspicious_links)
            /\ href = "http://secure-verify.tk/login" =>
                  "secure-verify.tk" \in Range(link_analysis.malicious_domains)

\* the text/plain payloads of the message, one after the other
PlainText == WalkBody(SelectSeq(ContentParts, LAMBDA part : part.ctype = "text/plain"))

\* C17 as stated: the body text of a multipart message is at least as long as
\* its text/plain parts together; a failure while one part is handled leaves
\* the text of the other parts in the body; a text/html payload contributes its
\* visible text and never its markup, in a multipart message and in a
\* single-part one.
C17_BodyText ==
    (content.kind = "message" /\ Done("body")) =>
        LET m == Mime(content)
            body == _get_email_body(content)
        IN  /\ (m.multipart /\ content.fault = "none") => Len(body) >= Len(PlainText)
            /\ (m.multipart /\ content.fault = "payload" /\ Len(m.parts) >= 2
                  /\ \A i \in 1..Len(m.parts) :
                        m.parts[i].ctype = "text/plain" /\ m.parts[i].payload # <<>>)
                  => body # <<>>
            /\ (\A i \in 1..Len(m.parts) : m.parts[i].ctype = "text/html")
                  => \A j \in 1..Len(body) : body[j].tag = "text"

\* the filenames the non-multipart parts declare, in part order
DeclaredFilenames ==
    SelectSeq([i \in 1..Len(ContentParts) |-> ContentParts[i].filename],
              LAMBDA f : f # "")

\* '.' in the filename, read off the name itself
Dotted(filename) == filename \notin {"", "README"}

\* C18 as stated: an attachment whose filename holds no '.' adds no entry to
\* file_types and is never listed in suspicious_attachments.
C18_NoDotNoEntry ==
    (content.kind = "message" /\ Done("attachment")) =>
        /\ Len(attachment_analysis.file_types)
              = Len(SelectSeq(DeclaredFilenames, Dotted))
        /\ \A f \in Range(attachment_analysis.suspicious_attachments) : Dotted(f)

\* the extension of a filename with a '.', lowercased, read off the name
DottedExtension(filename) ==
    CASE filename = "invoice.exe" -> "exe"
      [] filename \in {"report.pdf", "Report.PDF"} -> "pdf"

\* C19 as stated: file_types holds, in part order, the lowercased extension of
\* every non-multipart part that declares a filename with a '.', dangerous or
\* not; suspicious_attachments is the subsequence of those filenames whose
\* extension is dangerous; so it is no longer than file_types, and invoice.exe
\* alone gives [invoice.exe] and a file_types holding exe.
C19_FileTypes ==
    (content.kind = "message" /\ Done("attachment")) =>
        LET dotted == SelectSeq(DeclaredFilenames, Dotted)
            types == attachment_analysis.file_types
            suspicious == attachment_analysis.suspicious_attachments
        IN  /\ types = [i \in 1..Len(dotted) |-> DottedExtension(dotted[i])]
            /\ suspicious = SelectSeq(dotted, LAMBDA f :
                                DottedExtension(f) \in SUSPICIOUS_ATTACHMENTS)
            /\ Len(suspicious) <= Len(types)
            /\ DeclaredFilenames = <<"invoice.exe">> =>
                  (suspicious = <<"invoice.exe">> /\ "exe" \in Range(types))

\* the spellings of a phrase the modelled payloads hold
Spellings(phrase) == IF phrase = "urgent" THEN {"urgent", "URGENT"} ELSE {phrase}

\* how often the phrase occurs in the body text, in any spelling
Occurrences(phrase, body) ==
    Cardinality({i \in 1..Len(body) :
                    body[i].tag = "text" /\ body[i].value \in Spellings(phrase)})

\* C20: each vocabulary keyword is in suspicious_keywords at most once and
\* exactly when it occurs in the body text in any case, and each urgency
\* pattern is in urgency_indicators at most once and exactly when it matches,
\* however often the phrase is repeated; so suspicious_keywords is no longer
\* than the vocabulary.
C20_RecordedOnce ==
    (content.kind = "message" /\ Done("body")) =>
        LET body == _get_email_body(content)
            keywords == content_analysis.suspicious_keywords
            urgency == content_analysis.urgency_indicators
        IN  /\ \A k \in Range(Phrases) :
                  Count(keywords, k) = (IF Occurrences(k, body) > 0 THEN 1 ELSE 0)
            /\ \A p \in Range(URGENCY_PATTERNS) :
                  Count(urgency, p) = (IF Occurrences(p, body) > 0 THEN 1 ELSE 0)
            /\ Range(keywords) \subseteq Range(Phrases)
            /\ Range(urgency) \subseteq Range(URGENCY_PATTERNS)
            /\ Len(keywords) <= Len(Phrases)

\* C20 witness: a body that repeats "urgent" three times, once in capitals,
\* has been analysed and the keyword is recorded once.
C20_Witness ==
    /\ content.kind = "message"
    /\ Done("body")
    /\ Occurrences("urgent", _get_email_body(content)) = 3
    /\ \E i \in 1..Len(_get_email_body(content)) :
          _get_email_body(content)[i].value = "URGENT"
    /\ content_analysis.suspicious_keywords = <<"urgent">>
    /\ content_analysis.urgency_indicators = <<"urgent">>

\* an outcome was kept of an earlier invocation on the content now analysed
SameInputAgain ==
    /\ entry = "analyze_content"
    /\ previous # NoCall
    /\ content = previous.content

\* C13 as stated: two invocations of analyze_content on identical input,
\* whatever was analysed in between, end alike with identical threat_score,
\* risk_level and finding lists.
C13_Idempotent ==
    (SameInputAgain /\ AnalyzeContentDone) =>
        /\ stage = previous.stage
        /\ raised = previous.raised
        /\ result = previous.result

\* What holds instead: two invocations in one interpreter end alike, and so do
\* two invocations in different interpreters but for the order of
\* suspicious_keywords.
C13_AlikeWithinInterpreter ==
    (SameInputAgain /\ AnalyzeContentDone) =>
        /\ stage = previous.stage
        /\ raised = previous.raised
        /\ keyword_order = previous.keyword_order => result = previous.result
        /\ stage = "Returned" =>
              /\ result.threat_score = previous.result.threat_score
              /\ result.risk_level = previous.result.risk_level
              /\ [result EXCEPT !.content_analysis = <<>>]
                    = [previous.result EXCEPT !.content_analysis = <<>>]
              /\ Range(result.content_analysis.suspicious_keywords)
                    = Range(previous.result.content_analysis.suspicious_keywords)

\* s is an initial piece of t
IsPrefix(s, t) == Len(s) <= Len(t) /\ \A i \in 1..Len(s) : s[i] = t[i]

\* an outcome was kept of an invocation that ran the extractors in the order of
\* the code, on the content now analysed
CodeOrderBefore == SameInputAgain /\ IsPrefix(previous.order, CodeOrder)

BrandOnlyInDisplayName(from_header) ==
    \E i \in 1..Len(BRANDS) :
        /\ HasPiece(FromPieces(from_header).display, BRANDS[i])
        /\ ~HasAtPiece(FromPieces(from_header).address, BRANDS[i])

\* C23 as stated: the header extractor reports display-name spoofing exactly
\* when the display-name text of From holds a brand and the address portion
\* does not hold @<brand>; a From header with no brand in its display name is
\* never reported.
C23_DisplayNameSpoofing ==
    (content.kind = "message" /\ Done("header")) =>
        LET flagged == \E i \in 1..Len(header_analysis.suspicious_patterns) :
                header_analysis.suspicious_patterns[i] = "Possible display name spoofing"
            display == FromPieces(content.from).display
        IN  /\ flagged <=> BrandOnlyInDisplayName(content.from)
            /\ (\A i \in 1..Len(BRANDS) : ~HasPiece(display, BRANDS[i])) => ~flagged

\* what holds of the check: it looks for the brand and for @<brand> anywhere in the header
C23_WholeHeaderSearch ==
    (content.kind = "message" /\ Done("header")) =>
        LET flagged == \E i \in 1..Len(header_analysis.suspicious_patterns) :
                header_analysis.suspicious_patterns[i] = "Possible display name spoofing"
            whole == FromPieces(content.from).display \o FromPieces(content.from).address
        IN  flagged <=> \E i \in 1..Len(BRANDS) :
                            HasPiece(whole, BRANDS[i]) /\ ~HasAtPiece(whole, BRANDS[i])

\* the checks of analyze_file in the order the claim gives, each with its report
FileChecks == <<"File not found", "Cannot read file", "File too large",
                "File is empty", "Invalid file extension">>

\* the file fails the check with this report
FailsCheck(report) ==
    CASE report = "File not found" -> ~fsExists
      [] report = "Cannot read file" -> ~file.readable
      [] report = "File too large" -> file.size > MAX_FILE_SIZE
      [] report = "File is empty" -> file.size = 0
      [] report = "Invalid file extension" -> file.ext \notin ALLOWED_EXTENSIONS

\* analyze_file has gone past its checks and the file has not been cleaned up yet
FileChecked == fstage \notin {"Idle", "Validating"} /\ tstage \in {"Idle", "Running"}

\* C24: analyze_file reports the first failing check in the order existence,
\* readability, too large, empty, extension, and nothing about the later ones;
\* the file is opened and parsed only when all five checks pass.
C24_FirstFailingCheck ==
    FileChecked =>
        LET failing == {i \in 1..Len(FileChecks) : FailsCheck(FileChecks[i])}
        IN  IF failing # {}
            THEN /\ fstage = "Raised"
                 /\ stage = "Idle"
                 /\ \E i \in failing :
                       /\ \A j \in failing : i <= j
                       /\ fraised.message = FileChecks[i]
            ELSE /\ fstage \in {"Reading", "Analyzing", "Returned", "Raised"}
                 /\ fstage = "Raised" => fraised.type = "EmailParsingError"

\* C24 witness: an empty file with a wrong extension was reported as empty.
C24_Witness ==
    /\ FileChecked
    /\ fsExists /\ file.readable /\ file.size = 0 /\ file.ext = ".txt"
    /\ fstage = "Raised"
    /\ fraised.message = "File is empty"

\* C25: once an execution of analyze_file_task has ended (with a payload or
\* with a retry scheduled) the uploaded file is gone; an execution that is a
\* retry finds the file missing, never reads it and never delivers a payload.
C25_FileGoneAfterExecution ==
    /\ taskState \in {"SUCCESS", "RETRY", "FAILURE"} => ~fsExists
    /\ (entry = "analyze_file_task" /\ retries > 0) =>
          /\ ~fsExists
          /\ taskState # "SUCCESS"
          /\ payload = NoResult
    /\ (entry = "analyze_file_task" /\ retries > 0 /\ tstage = "Running") =>
          /\ fstage \in {"Validating", "Raised"}
          /\ fstage = "Raised" => fraised.type = "FileNotFoundError"

\* C25 witness: a file that was on disk when the job was queued is found
\* missing by a retried execution.
C25_Witness ==
    /\ entry = "analyze_file_task"
    /\ file.exists
    /\ retries > 0
    /\ tstage = "Running"
    /\ fstage = "Raised"
    /\ fraised.type = "FileNotFoundError"

\* low < medium < high
TierRank(risk_level) ==
    CASE risk_level = "low" -> 0
      [] risk_level = "medium" -> 1
      [] risk_level = "high" -> 2

\* C26: one more entry in risk_indicators, suspicious_keywords,
\* suspicious_links, malicious_domains or suspicious_attachments never lowers
\* the threat score and never moves the risk level to a lower tier.
C26_Monotone ==
    [][/\ result'.threat_score >= result.threat_score
       /\ TierRank(result'.risk_level) >= TierRank(result.risk_level)]_vars

\* C26 witness: the findings grew by an entry while the score was at its
\* maximum, and the result is still the maximum and high.
C26_Witness ==
    /\ entry = "_calculate_threat_score"
    /\ Len(header_analysis.risk_indicators) = MaxFindings
    /\ Len(link_analysis.malicious_domains) > 1
    /\ result.threat_score = ScoreCap
    /\ result.risk_level = "high"

\* the core handed a result, scored or degraded, back to the running task
CoreReturned ==
    /\ tstage = "Running"
    /\ \/ entry = "analyze_content_task" /\ stage \in {"Returned", "Failed"}
       \/ entry = "analyze_file_task" /\ fstage = "Returned"

\* the core raised an exception the running task has no error payload for
CoreRaisedUnconverted ==
    /\ tstage = "Running"
    /\ entry = "analyze_file_task"
    /\ fstage = "Raised"
    /\ fraised.type \notin {"FileValidationError", "EmailParsingError"}

C21_Bounded ==
    /\ retries <= 3
    /\ countdown \in {0, 60}
    /\ taskState = "RETRY" => retries >= 1 /\ countdown = 60
    /\ taskState = "FAILURE" => retries = 3 /\ payload = NoResult /\ tstage = "Done"
    /\ taskState = "SUCCESS" => payload # NoResult /\ tstage = "Done"

C21_Step ==
    /\ retries' \in {retries, retries + 1}
    /\ retries' = retries + 1 => ~CoreReturned /\ taskState' = "RETRY"
    /\ (CoreRaisedUnconverted /\ tstage' # tstage) =>
          IF retries < 3
          THEN retries' = retries + 1 /\ tstage' = "Queued"
          ELSE taskState' = "FAILURE"
    /\ (CoreReturned /\ tstage' # tstage) => taskState' = "SUCCESS" /\ payload' # NoResult
    /\ taskState \in {"SUCCESS", "FAILURE"} => UNCHANGED <<taskState, retries, payload>>

\* C21: a job of either task is retried at most 3 times, each time with a
\* countdown of 60 seconds, and only when an execution ended with an exception
\* the task has no error payload for; after the third retry such an exception
\* fails the job; a result the core returned, degraded or not, becomes the
\* payload and the job is never retried after it; every queued job ends.
C21_RetriesBounded ==
    /\ []C21_Bounded
    /\ [][C21_Step]_vars
    /\ (tstage = "Queued") ~> (tstage = "Done")

\* C21 witness: a job whose file could not be read has failed after three retries.
C21_Witness ==
    /\ entry = "analyze_file_task"
    /\ file.exists /\ ~file.readable
    /\ taskState = "FAILURE"
    /\ retries = 3
    /\ countdown = 60

\* C21 witness: a job given blank content has failed after three retries.
C21_WitnessContent ==
    /\ entry = "analyze_content_task"
    /\ content.kind = "blank"
    /\ taskState = "FAILURE"
    /\ retries = 3

\* each task_id has at most one stored record
C22_OneRecordPerTask ==
    \A id \in TaskIds : Cardinality({r \in analysis_results : r.task_id = id}) <= 1

\* the daily counters were incremented exactly once for every stored record,
\* and for nothing else
C22_CountedOnce ==
    /\ \A r \in analysis_results : Count(counted, r.task_id) = 1
    /\ \A i \in 1..Len(counted) : \E r \in analysis_results : r.task_id = counted[i]

\* a save that adds no record and returns True changes no counter
C22_SecondSave ==
    (saved' = "True" /\ analysis_results' = analysis_results) =>
        UNCHANGED <<analysis_statistics, counted>>

\* C22 as stated: over any sequence of save_analysis_result calls each task_id
\* has at most one stored record, every stored record has incremented the
\* daily counters exactly once, and a second save with a stored task_id
\* returns True without adding a record or changing a counter.
C22_RecordAndCounters ==
    /\ [](C22_OneRecordPerTask /\ C22_CountedOnce)
    /\ [][C22_SecondSave]_vars

\* what holds of the records alone
C22_RecordsOnly ==
    /\ []C22_OneRecordPerTask
    /\ [][C22_SecondSave /\ analysis_results \subseteq analysis_results']_vars

\* C30 as stated: every daily statistics row has total_analyses =
\* high_risk_count + medium_risk_count + low_risk_count and total_analyses =
\* file_analyses + content_analyses, whatever risk_level the stored results
\* have, 'unknown' included.
C30_CountersAddUp ==
    \A s \in analysis_statistics :
        /\ s.total_analyses = s.high_risk_count + s.medium_risk_count + s.low_risk_count
        /\ s.total_analyses = s.file_analyses + s.content_analyses

\* what holds of the rows: the two type counters add up to the total, and the
\* three tier counters fall short of it by the 'unknown' results counted that day
C30_TypeCountersAddUp ==
    \A s \in analysis_statistics :
        /\ s.total_analyses = s.file_analyses + s.content_analyses
        /\ s.total_analyses = s.high_risk_count + s.medium_risk_count + s.low_risk_count
              + Cardinality({r \in analysis_results :
                                /\ r.created_at = s.date
                                /\ r.risk_level = "unknown"
                                /\ Count(counted, r.task_id) = 1})

-----------------------------------------------------------------------------
(* rate_limit *)

\* the request found the counter at or above the limit
FoundAtLimit(request) ==
    /\ request.pc \in {"call", "done", "except"}
    /\ request.current # Nil
    /\ request.current >= _parse_rate_limit(api_rate_limit).limit

\* C27: with requests arriving one at a time and Redis available, at most
\* `limit` requests reach the wrapped function within one period; the counter
\* is created at 1 with the period as its expiry, and a request that finds the
\* counter at or above the limit is answered 429 without a call of the wrapped
\* function.
C27_OneAtATime ==
    /\ admitted <= _parse_rate_limit(api_rate_limit).limit
    /\ redis_key.exists =>
          /\ redis_key.value >= 1
          /\ redis_key.ttl = _parse_rate_limit(api_rate_limit).period
    /\ \A i \in 1..Len(requests) :
          FoundAtLimit(requests[i]) =>
              /\ requests[i].status = 429
              /\ requests[i].calls = 0

\* C27, the steps: a counter is created at 1 with the period as its expiry,
\* an admitted request adds one to it, a refused request leaves it alone.
C27_Steps ==
    [][/\ (~redis_key.exists /\ redis_key'.exists) =>
             redis_key' = SetEx(_parse_rate_limit(api_rate_limit).period)
       /\ (redis_key.exists /\ redis_key'.exists /\ redis_key' # redis_key) =>
             redis_key' = [redis_key EXCEPT !.value = @ + 1]
       /\ \A i \in 1..Len(requests) :
             (requests[i].pc = "update" /\ requests'[i].status = 429) =>
                 redis_key' = redis_key]_vars

\* C27, the part that holds: with a limit of one or more the wrapped function
\* is reached at most `limit` times while a counter lasts, the counter equals
\* the requests let through, and a refused request is given 429 without a call.
C27_PositiveLimit ==
    _parse_rate_limit(api_rate_limit).limit >= 1 =>
        /\ admitted <= _parse_rate_limit(api_rate_limit).limit
        /\ redis_key.exists => redis_key.value = admitted
        /\ \A i \in 1..Len(requests) :
              FoundAtLimit(requests[i]) =>
                  /\ requests[i].status = 429
                  /\ requests[i].calls = 0

\* C27, the lost expiry alone: a counter that exists runs out.
C27_CounterExpires ==
    redis_key.exists => redis_key.ttl > 0

\* C28: under every interleaving of concurrent requests, at most `limit`
\* requests are let through to the wrapped function within one period, and the
\* stored counter never exceeds `limit` and never loses its expiry.
C28_Concurrent ==
    /\ admitted <= _parse_rate_limit(api_rate_limit).limit
    /\ redis_key.exists =>
          /\ redis_key.value <= _parse_rate_limit(api_rate_limit).limit
          /\ redis_key.ttl > 0

\* C28 for a limit of one or more, the admissions alone: two requests that
\* both read the counter before either writes it are both let through.
C28_AdmittedWithinLimit ==
    _parse_rate_limit(api_rate_limit).limit >= 1 =>
        admitted <= _parse_rate_limit(api_rate_limit).limit

\* C28 for a limit of one or more, the counter alone.
C28_CounterWithinLimit ==
    (_parse_rate_limit(api_rate_limit).limit >= 1 /\ redis_key.exists) =>
        redis_key.value <= _parse_rate_limit(api_rate_limit).limit

\* the Redis calls the decorator makes itself
LimiterOperations == {"get", "setex", "incr", "ttl"}

\* C29: a request during which a Redis call raised RedisError is never
\* answered 429 by the decorator; the wrapped function is called and what it
\* returns or raises is the response; when the failing call was one of the
\* decorator's own, made before the wrapped function, the wrapped function
\* runs exactly once for the request.
C29_FailsOpen ==
    \A i \in 1..Len(requests) :
        requests[i].failed # "none" =>
            /\ requests[i].pc \in {"except", "done"}
            /\ requests[i].pc = "done" =>
                  /\ requests[i].status \in {200, 500}
                  /\ requests[i].calls >= 1
                  /\ requests[i].failed \in LimiterOperations => requests[i].calls = 1
            /\ (requests[i].pc = "except" /\ requests[i].failed \in LimiterOperations) =>
                  requests[i].calls = 0

\* a request over the limit whose r.ttl failed got the view's answer instead
\* of the 429
C29_Witness ==
    \E i \in 1..Len(requests) :
        /\ requests[i].pc = "done"
        /\ requests[i].failed = "ttl"
        /\ requests[i].calls = 1
        /\ requests[i].status = 200

\* a request whose r.incr failed after Redis had counted it
C29_WitnessIncr ==
    \E i \in 1..Len(requests) :
        /\ requests[i].pc = "done"
        /\ requests[i].failed = "incr"
        /\ requests[i].calls = 1
        /\ redis_key.exists
        /\ redis_key.value = requests[i].current + 1

\* outside the proviso: the view itself raised RedisError and ran twice
C29_RanTwice ==
    \E i \in 1..Len(requests) :
        /\ requests[i].pc = "done"
        /\ requests[i].failed = "f"
        /\ requests[i].calls = 2

=============================================================================
